---- MODULE Spec2Model ----
(***************************************************************************)
(* Windowed statistics of finmath (rolling standard deviation, smoothed    *)
(* RSI, simple moving average, EMA, rolling volatility), the vector       *)
(* primitives they call, the batch tasks of black_scholes_multiple_calls   *)
(* and the arbitrage search detectArbitrageBellman.                        *)
(*                                                                         *)
(* A double is modelled in exact arithmetic: a finite value is a rational  *)
(* <<n, d>> in lowest terms with d > 0; the non-finite values of IEEE-754  *)
(* are the 1-tuples NaN, PosInf and NegInf.  std::sqrt(n/d) of a finite    *)
(* n/d >= 0 is the surd <<"sqrt", n, d>>, the non-negative root of n/d:    *)
(* two surds are equal exactly when their radicands are.  Sequences are    *)
(* 1-based in TLA+ and 0-based in the code: At(s, k) is the code's s[k].   *)
(***************************************************************************)
EXTENDS Integers, Sequences, FiniteSets, TLC

\* ------------------------------------------------------------------ bounds

\* Longest input sequence drawn.
MaxLen == 4

\* Calls a client makes on one input before the model stops recording.
MaxCalls == 2

\* Longest input drawn where every windowed function is called on it.
ShortLen == 2

\* Most edges of a graph searched for an arbitrage.
MaxEdges == 3

\* Values the prices are drawn from.
PriceValues == {1, 2, 4}

\* Values rolling-volatility prices are drawn from: powers of two, so that
\* every finite log-return is a whole multiple of ln 2 (with 1, 2, 4 a
\* window of two equal non-zero log-returns), and two non-positive values.
VolPriceValues == {-1, 0, 1, 2, 4}

\* Values drawn where every windowed function is called on the input.
WindowedPriceValues == {0, 1, 2}

\* Window sizes drawn: 0 (rejected), every size up to the input's length,
\* and one beyond the longest input.
WindowSizes == 0..(MaxLen + 1)

\* Chunk widths of the vector primitives: Scalar, SSE/NEON, AVX.
Widths == {1, 2, 4}

\* Smoothing factors drawn: two inside (0,1), both ends, one beyond each.
SmoothingValues == {<<-1, 2>>, <<0, 1>>, <<1, 4>>, <<1, 2>>, <<1, 1>>, <<3, 2>>}

\* ------------------------------------------------------- exact arithmetic

Abs(x) == IF x < 0 THEN -x ELSE x

Min(a, b) == IF a < b THEN a ELSE b

Max(a, b) == IF a > b THEN a ELSE b

RECURSIVE GCD(_, _)
GCD(a, b) == IF b = 0 THEN a ELSE GCD(b, a % b)

\* The rational n/d (d # 0) in lowest terms with a positive denominator.
Norm(n, d) ==
    LET g == GCD(Abs(n), Abs(d))
        s == IF d < 0 THEN -1 ELSE 1
    IN  <<(s * n) \div g, (s * d) \div g>>

\* An integer (a size_t, an int literal or an integral double) as a double.
R(n) == <<n, 1>>

Zero == R(0)

NaN == <<"NaN">>

PosInf == <<"+Inf">>

NegInf == <<"-Inf">>

\* a + b, a - b, a * b for finite or NaN operands: NaN if either is NaN.
RAdd(a, b) ==
    IF a = NaN \/ b = NaN THEN NaN
    ELSE Norm(a[1] * b[2] + b[1] * a[2], a[2] * b[2])

RSub(a, b) ==
    IF a = NaN \/ b = NaN THEN NaN
    ELSE Norm(a[1] * b[2] - b[1] * a[2], a[2] * b[2])

RMul(a, b) ==
    IF a = NaN \/ b = NaN THEN NaN ELSE Norm(a[1] * b[1], a[2] * b[2])

\* a / b for finite or NaN a and b, b # 0.
RDiv(a, b) ==
    IF a = NaN \/ b = NaN THEN NaN ELSE Norm(a[1] * b[2], a[2] * b[1])

RNeg(a) == IF a = NaN THEN NaN ELSE <<-a[1], a[2]>>

\* a < b, a <= b, a > b: false when either operand is NaN.
RLt(a, b) == a # NaN /\ b # NaN /\ a[1] * b[2] < b[1] * a[2]

RLe(a, b) == a # NaN /\ b # NaN /\ a[1] * b[2] <= b[1] * a[2]

RGt(a, b) == RLt(b, a)

IsFinite(x) == Len(x) = 2

\* std::sqrt of a double.
Sqrt(q) ==
    IF q = NaN \/ q = NegInf THEN NaN
    ELSE IF q = PosInf THEN PosInf
    ELSE IF RLt(q, Zero) THEN NaN
    ELSE <<"sqrt", q[1], q[2]>>

\* The code's s[k] (0-based).
At(s, k) == s[k + 1]

\* The sequences over S of length at most n.
SeqsUpTo(S, n) == UNION {[1..k -> S] : k \in 0..n}

\* ------------------------------------------------------------------ state

VARIABLES
    prices,       \* the input sequence of the call
    window_size,  \* the window argument of the call
    width,        \* chunk width of the build's vector backend
    smoothing,    \* the smoothing-factor argument of the EMA calls
    pc,           \* rolling_std_dev_fast: position in the function
    window,       \* rolling_std_dev_fast: local window after shrinking
    i,            \* rolling_std_dev_fast: loop index
    mean,         \* rolling_std_dev_fast: running mean
    squared_sum,  \* rolling_std_dev_fast: running sum of squared deviations
    price_out,    \* rolling_std_dev_fast: sample leaving the window
    result,       \* rolling_std_dev_fast: output vector
    error,        \* rolling_std_dev_fast: what() of the exception thrown
    rounded,      \* rolling_std_dev_fast: the accumulators carry rounding error
    vec_a,        \* vector primitives: the pointer a and the buffer behind it
    vec_b,        \* vector primitives: the pointer b and the buffer behind it
    vec_result,   \* vector primitives: the pointer result and its buffer
    vec_size,     \* vector primitives: the size argument
    vec_scalar,   \* vector primitives: the scalar argument
    num_options,  \* black_scholes_multiple_calls: the number of options
    futures,      \* black_scholes_multiple_calls: the tasks launched
    results,      \* black_scholes_multiple_calls: the writes to each result
    joined,       \* black_scholes_multiple_calls: futures already waited for
    graph,        \* detectArbitrageBellman: the adjacency list passed
    ret           \* outcome of each pure call made on the input

inputs == <<prices, window_size, width, smoothing, vec_a, vec_b, vec_result,
            vec_size, vec_scalar, num_options, graph>>

pricing == <<futures, results, joined>>

frame == <<pc, window, i, mean, squared_sum, price_out, result, error,
           rounded>>

vars == <<prices, window_size, width, smoothing, vec_a, vec_b, vec_result,
          vec_size, vec_scalar, num_options, graph, futures, results,
          joined, pc, window, i, mean, squared_sum, price_out, result, error,
          rounded, ret>>

\* ------------------------------------------------------------ pure calls

\* The functions whose calls are recorded in ret.
Ops == {"vector_add", "vector_sub", "vector_mul", "vector_div",
        "vector_mul_scalar", "vector_add_scalar",
        "dot_product", "vector_sum", "vector_mean", "vector_variance",
        "vector_stddev", "vector_max", "vector_min",
        "vector_conditional_sum_positive",
        "vector_conditional_sum_negative",
        "compute_smoothed_rsi", "compute_smoothed_rsi_np",
        "compute_smoothed_rsi_simd",
        "simple_moving_average", "simple_moving_average_np",
        "simple_moving_average_simd",
        "compute_ema", "compute_ema_np", "compute_ema_simd",
        "compute_ema_with_smoothing", "compute_ema_with_smoothing_np",
        "compute_ema_with_smoothing_simd",
        "rolling_volatility", "rolling_volatility_np",
        "rolling_volatility_simd",
        "detectArbitrageBellman"}

\* What a call did: returned `out` (and, for RSI, folded the changes at the
\* 0-based indices `trace` in its smoothing loop), or threw `what`.
Ok(v, t) ==
    [status |-> "ok", out |-> v, trace |-> t, what |-> "", steps |-> <<>>]

Throw(msg) ==
    [status |-> "error", out |-> <<>>, trace |-> <<>>, what |-> msg,
     steps |-> <<>>]

NotCalled ==
    [status |-> "none", out |-> <<>>, trace |-> <<>>, what |-> "",
     steps |-> <<>>]

\* A returned result together with the values its locals took, one entry
\* per value pushed.
OkWith(v, t, locals) == [Ok(v, t) EXCEPT !.steps = locals]

NoCalls == ret = [op \in Ops |-> NotCalled]

Called(op) == ret[op] # NotCalled

\* The caller invokes op on the input and keeps its outcome.
Call(op, outcome) ==
    /\ pc = "call"
    /\ ~Called(op)
    /\ Cardinality({o \in Ops : Called(o)}) < MaxCalls
    /\ ret' = [ret EXCEPT ![op] = outcome]
    /\ UNCHANGED <<inputs, pricing, pricing, frame>>

\* A null pointer, and a pointer to a buffer holding d.
NullPtr == [null |-> TRUE, data |-> <<>>]

Ptr(d) == [null |-> FALSE, data |-> d]

\* No vector primitive is called: no buffers are passed.
NoBuffers ==
    /\ vec_a = NullPtr
    /\ vec_b = NullPtr
    /\ vec_result = NullPtr
    /\ vec_size = 0
    /\ vec_scalar = <<0, 1>>

\* No task launched, nothing written, nothing waited for.
NoTasks ==
    /\ futures = <<>>
    /\ results = <<>>
    /\ joined = 0

\* No option is priced.
NoOptions == num_options = 0 /\ NoTasks

\* No graph is searched: the adjacency list is empty.
NoGraph == graph = <<>>

\* The input as a buffer of doubles (std::vector<double>, py::array_t<double>).
AsDoubles(s) == [k \in 1..Len(s) |-> R(s[k])]

\* ------------------------------------------------ rolling_std_dev_fast

\* An allocation one element short.
AllocResultShort(n) == [k \in 1..(n - 1) |-> Zero]

\* std::vector<double> result(prices.size(), 0.0)
AllocResult(n) == [k \in 1..n |-> Zero]

\* A shrink that lands one below the input's length.
ShrinkWindowOffByOne(w, n) == IF w > n THEN n - 1 ELSE w

\* if (window > prices.size()) window = prices.size()

ShrinkWindow(w, n) == IF w > n THEN n ELSE w

\* Priming: mean = mean + (prices[i] - mean)/(i+1)
PrimeMean(m, x, k) == RAdd(m, RDiv(RSub(x, m), R(k + 1)))

\* An update that squares the deviation from the old mean.
PrimeSquaredSumOldMean(sq, x, old_mean, new_mean) ==
    RAdd(sq, RMul(RSub(x, old_mean), RSub(x, old_mean)))

\* Priming: squared_sum + (prices[i] - old_mean)*(prices[i] - mean)
PrimeSquaredSum(sq, x, old_mean, new_mean) ==
    RAdd(sq, RMul(RSub(x, old_mean), RSub(x, new_mean)))

\* Sliding: mean += (price_in - price_out)/window
SlideMean(m, price_in, out, w) == RAdd(m, RDiv(RSub(price_in, out), R(w)))

\* A naive update that forgets the sample leaving the window.
SlideSquaredSumNaive(sq, price_in, out, old_mean, new_mean) ==
    RAdd(sq, RMul(RSub(price_in, new_mean), RSub(price_in, old_mean)))

\* Sliding: squared_sum += (price_in - mean)*(price_in - old_mean)
\*                       - (price_out - mean)*(price_out - old_mean)
SlideSquaredSum(sq, price_in, out, old_mean, new_mean) ==
    RAdd(sq, RSub(RMul(RSub(price_in, new_mean), RSub(price_in, old_mean)),
                  RMul(RSub(out, new_mean), RSub(out, old_mean))))

\* std::sqrt(squared_sum/window), window >= 1
StdOf(sq, w) == Sqrt(RDiv(sq, R(w)))

\* A double holds a rational exactly only when its denominator is a power
\* of two (the magnitudes here are far inside the 53-bit mantissa).
RECURSIVE PowerOfTwo(_)
PowerOfTwo(d) == d = 1 \/ (d % 2 = 0 /\ PowerOfTwo(d \div 2))

Representable(q) == PowerOfTwo(q[2])

\* mean and squared_sum are doubles: once a quotient by i+1 or by window is
\* not representable, they carry a rounding error from then on.
CarriesRounding(r, new_mean, new_sq) ==
    r \/ ~Representable(new_mean) \/ ~Representable(new_sq)

\* Line 32: result[i] = std::sqrt(squared_sum/window) with no guard on the
\* sign.  The model keeps the accumulators' exact values; where squared_sum
\* is exactly 0 and carries a rounding error, the double is a residue of
\* either sign, and the square root of a negative residue is NaN.
SlideEmit(sq, w, r) ==
    IF r /\ sq = Zero THEN {StdOf(sq, w), NaN} ELSE {StdOf(sq, w)}

\* Lines 8-16: the zero check, the allocation, the shrink, the accumulators.
StdEnter ==
    /\ pc = "call"
    /\ IF window_size = 0
       THEN /\ pc' = "thrown"
            /\ error' = "Window size cannot be zero."
            /\ UNCHANGED <<window, i, mean, squared_sum, price_out, result,
                           rounded>>
       ELSE /\ result' = AllocResult(Len(prices))
            /\ window' = ShrinkWindow(window_size, Len(prices))
            /\ mean' = Zero
            /\ squared_sum' = Zero
            /\ i' = 0
            /\ pc' = "priming"
            /\ UNCHANGED <<price_out, error, rounded>>
    /\ UNCHANGED <<inputs, pricing, ret>>

\* Lines 17-22: one iteration of the priming loop.
StdPrime ==
    /\ pc = "priming"
    /\ i < window
    /\ LET x == R(At(prices, i))
           new_mean == PrimeMean(mean, x, i)
           new_sq == PrimeSquaredSum(squared_sum, x, mean, new_mean)
       IN  /\ mean' = new_mean
           /\ squared_sum' = new_sq
           /\ rounded' = CarriesRounding(rounded, new_mean, new_sq)
    /\ i' = i + 1
    /\ UNCHANGED <<inputs, pricing, pc, window, price_out, result, error, ret>>

\* Lines 23-24 with window >= 1: the first value and the first price_out.
StdEmitFirst ==
    /\ pc = "priming"
    /\ i >= window
    /\ window >= 1
    /\ result' = [result EXCEPT ![window] = StdOf(squared_sum, window)]
    /\ price_out' = R(At(prices, 0))
    /\ i' = window
    /\ pc' = "sliding"
    /\ UNCHANGED <<inputs, pricing, window, mean, squared_sum, error, rounded, ret>>

\* Lines 23-24 with window = 0 (empty input): result[window - 1] is
\* result[SIZE_MAX] of an empty vector and prices[0] is read past the end.
\* The behaviour is undefined: the build either faults or carries on with
\* whatever was read.
StdEmitFirstEmpty ==
    /\ pc = "priming"
    /\ i >= window
    /\ window = 0
    /\ \/ /\ pc' = "crashed"
          /\ UNCHANGED <<price_out, i>>
       \/ /\ pc' = "sliding"
          /\ \E g \in PriceValues : price_out' = R(g)
          /\ i' = window
    /\ UNCHANGED <<inputs, pricing, window, mean, squared_sum, result, error, rounded,
                   ret>>

\* A sliding iteration that never advances price_out.
StdSlideStaleOut ==
    /\ pc = "sliding"
    /\ i < Len(prices)
    /\ LET price_in == R(At(prices, i))
           new_mean == SlideMean(mean, price_in, price_out, window)
           new_sq == SlideSquaredSum(squared_sum, price_in, price_out,
                                     mean, new_mean)
           r == CarriesRounding(rounded, new_mean, new_sq)
       IN  /\ mean' = new_mean
           /\ squared_sum' = new_sq
           /\ rounded' = r
           /\ \E v \in SlideEmit(new_sq, window, r) :
                  result' = [result EXCEPT ![i + 1] = v]
    /\ i' = i + 1
    /\ UNCHANGED <<inputs, pricing, pc, window, price_out, error, ret>>

\* Lines 25-34: one iteration of the sliding loop.
StdSlide ==
    /\ pc = "sliding"
    /\ i < Len(prices)
    /\ LET price_in == R(At(prices, i))
           new_mean == SlideMean(mean, price_in, price_out, window)
           new_sq == SlideSquaredSum(squared_sum, price_in, price_out,
                                     mean, new_mean)
           r == CarriesRounding(rounded, new_mean, new_sq)
       IN  /\ mean' = new_mean
           /\ squared_sum' = new_sq
           /\ rounded' = r
           /\ \E v \in SlideEmit(new_sq, window, r) :
                  result' = [result EXCEPT ![i + 1] = v]
    /\ price_out' = R(At(prices, i - window + 1))
    /\ i' = i + 1
    /\ UNCHANGED <<inputs, pricing, pc, window, error, ret>>

\* Line 36: return result.
StdReturn ==
    /\ pc = "sliding"
    /\ i >= Len(prices)
    /\ pc' = "returned"
    /\ UNCHANGED <<inputs, pricing, window, i, mean, squared_sum, price_out, result,
                   error, rounded, ret>>

\* The frame before the call.
FrameIdle ==
    /\ pc = "call"
    /\ window = 0
    /\ i = 0
    /\ mean = Zero
    /\ squared_sum = Zero
    /\ price_out = Zero
    /\ result = <<>>
    /\ error = ""
    /\ rounded = FALSE

InitStd ==
    /\ prices \in SeqsUpTo(PriceValues, MaxLen)
    /\ window_size \in WindowSizes
    /\ width = 1
    /\ smoothing = <<1, 2>>
    /\ FrameIdle
    /\ NoBuffers
    /\ NoCalls
    /\ NoOptions
    /\ NoGraph

NextStd ==
    \/ StdEnter
    \/ StdPrime
    \/ StdEmitFirst
    \/ StdEmitFirstEmpty
    \/ StdSlide
    \/ StdReturn

SpecStd == InitStd /\ [][NextStd]_vars

\* ------------------------------------------------------ vector primitives

\* Elements the chunk loop `for (; i + W <= size; i += W)` consumes.  The
\* Scalar build (W = 1) compiles no chunk loop.
ChunkedCount(n, W) == IF W = 1 THEN 0 ELSE (n \div W) * W

\* What one vector lane adds for element x: vsum + va for a sum,
\* vsum + max(0, va) for the positive and vsum + max(0, 0 - va) for the
\* negative conditional sum, vsum_sq + (va - vmean)*(va - vmean) for the
\* variance.  mode is <<"sum">>, <<"pos">>, <<"neg">> or <<"sqdev", mean>>.
LaneTerm(mode, x) ==
    IF mode[1] = "sum" THEN x
    ELSE IF mode[1] = "pos" THEN (IF RGt(Zero, x) THEN Zero ELSE x)
    ELSE IF mode[1] = "neg"
         THEN (IF RGt(Zero, RSub(Zero, x)) THEN Zero ELSE RSub(Zero, x))
    ELSE RMul(RSub(x, mode[2]), RSub(x, mode[2]))

\* Lane l of the vector accumulator after c chunks over a[off ..].
RECURSIVE LaneAcc(_, _, _, _, _, _)
LaneAcc(mode, a, off, W, l, c) ==
    IF c = 0 THEN Zero
    ELSE RAdd(LaneAcc(mode, a, off, W, l, c - 1),
              LaneTerm(mode, At(a, off + (c - 1) * W + l)))

\* temp[0] + temp[1] (+ temp[2] + temp[3]): the horizontal sum of lanes 0..l.
RECURSIVE HorizontalSum(_, _, _, _, _, _)
HorizontalSum(mode, a, off, W, c, l) ==
    IF l = 0 THEN LaneAcc(mode, a, off, W, 0, c)
    ELSE RAdd(HorizontalSum(mode, a, off, W, c, l - 1),
              LaneAcc(mode, a, off, W, l, c))

\* One iteration of the scalar cleanup loop.
ScalarStep(mode, sum, x) ==
    IF mode[1] = "sum" THEN RAdd(sum, x)
    ELSE IF mode[1] = "pos" THEN (IF RGt(x, Zero) THEN RAdd(sum, x) ELSE sum)
    ELSE IF mode[1] = "neg"
         THEN (IF RLt(x, Zero) THEN RAdd(sum, RNeg(x)) ELSE sum)
    ELSE RAdd(sum, RMul(RSub(x, mode[2]), RSub(x, mode[2])))

\* The scalar cleanup loop `for (; i < size; ++i)` from index k on.
RECURSIVE ScalarTail(_, _, _, _, _, _)
ScalarTail(mode, a, off, k, n, sum) ==
    IF k >= n THEN sum
    ELSE ScalarTail(mode, a, off, k + 1, n, ScalarStep(mode, sum, At(a, off + k)))

\* The chunk loop, the horizontal sum and the cleanup loop over a[off .. off+n).
Reduce(mode, a, off, n, W) ==
    LET done == ChunkedCount(n, W)
        sum == IF W = 1 THEN Zero
               ELSE HorizontalSum(mode, a, off, W, done \div W, W - 1)
    IN  ScalarTail(mode, a, off, done, n, sum)

\* finmath::simd::vector_sum(&a[off], n)
VectorSum(a, off, n, W) ==
    IF n = 0 THEN Zero ELSE Reduce(<<"sum">>, a, off, n, W)

\* finmath::simd::vector_mean(&a[off], n)
VectorMean(a, off, n, W) ==
    IF n = 0 THEN Zero ELSE RDiv(VectorSum(a, off, n, W), R(n))

\* finmath::simd::vector_variance(&a[off], n)
VectorVariance(a, off, n, W) ==
    IF n = 0 THEN Zero
    ELSE RDiv(Reduce(<<"sqdev", VectorMean(a, off, n, W)>>, a, off, n, W),
              R(n))

\* finmath::simd::vector_stddev(&a[off], n)
VectorStddev(a, off, n, W) == Sqrt(VectorVariance(a, off, n, W))

\* finmath::simd::vector_conditional_sum(&a[off], n, positive)
VectorConditionalSum(a, off, n, positive, W) ==
    IF n = 0 THEN Zero
    ELSE Reduce(IF positive THEN <<"pos">> ELSE <<"neg">>, a, off, n, W)

\* ------------------------------------- vector primitives, called on buffers

\* The doubles the buffer behind a holds (a negative, a zero, a positive and
\* a NaN element), the first elements of the buffers behind b (b holds b0,
\* b0 + 1, ...: the first one passes through 0), and the scalar argument.
VecValues == {<<-1, 1>>, <<0, 1>>, <<2, 1>>, NaN}

VecBStarts == {-2, 1}

VecScalars == {<<5, 2>>}

\* A cell of the result buffer no call has stored to.
Unwritten == <<"unwritten">>

\* A call that read through a null pointer and was ended by the fault.
Crashed ==
    [status |-> "crashed", out |-> <<>>, trace |-> <<>>, what |-> "",
     steps |-> <<>>]

\* x / y in IEEE-754 arithmetic (_mm256_div_pd, _mm_div_pd, a[i] / b[i]).
DivDouble(x, y) ==
    IF y = Zero
    THEN (IF RGt(x, Zero) THEN PosInf ELSE IF RLt(x, Zero) THEN NegInf ELSE NaN)
    ELSE RDiv(x, y)

\* What one lane, or one iteration of the cleanup loop, stores: a[i] + b[i],
\* a[i] - b[i], a[i] * b[i] or a[i] / b[i].
LaneOp(op, x, y) ==
    IF op = "add" THEN RAdd(x, y)
    ELSE IF op = "sub" THEN RSub(x, y)
    ELSE IF op = "mul" THEN RMul(x, y)
    ELSE DivDouble(x, y)

\* The chunk loop of an elementwise operation: W-wide stores to
\* result[0 .. ChunkedCount).
ChunkStore(op, a, b, res, n, W) ==
    [k \in 1..Len(res) |->
        IF k <= ChunkedCount(n, W) THEN LaneOp(op, a[k], b[k]) ELSE res[k]]

\* The cleanup loop `for (; i < size; ++i) result[i] = a[i] op b[i]`.
ScalarStore(op, a, b, res, from, n) ==
    [k \in 1..Len(res) |->
        IF k > from /\ k <= n THEN LaneOp(op, a[k], b[k]) ELSE res[k]]

\* The result buffer after both loops.
Elementwise(op, a, b, res, n, W) ==
    ScalarStore(op, a, b, ChunkStore(op, a, b, res, n, W),
                ChunkedCount(n, W), n)

\* _mm256_set1_pd(scalar): every lane holds the scalar.
Broadcast(scalar, n) == [k \in 1..n |-> scalar]

\* `if (!a || !b || !result || size == 0) return;`
BinaryGuard(a, b, res, size) == a.null \/ b.null \/ res.null \/ size = 0

\* `if (!a || !result || size == 0) return;`
ScalarGuard(a, res, size) == a.null \/ res.null \/ size = 0

\* finmath::simd::vector_add(a, b, result, size): the result buffer after it.
vector_add(a, b, res, size, W) ==
    IF BinaryGuard(a, b, res, size) THEN res.data
    ELSE Elementwise("add", a.data, AsDoubles(b.data), res.data,
                     size, W)

\* finmath::simd::vector_sub(a, b, result, size)
vector_sub(a, b, res, size, W) ==
    IF BinaryGuard(a, b, res, size) THEN res.data
    ELSE Elementwise("sub", a.data, AsDoubles(b.data), res.data,
                     size, W)

\* finmath::simd::vector_mul(a, b, result, size)
vector_mul(a, b, res, size, W) ==
    IF BinaryGuard(a, b, res, size) THEN res.data
    ELSE Elementwise("mul", a.data, AsDoubles(b.data), res.data,
                     size, W)

\* finmath::simd::vector_div(a, b, result, size)
vector_div(a, b, res, size, W) ==
    IF BinaryGuard(a, b, res, size) THEN res.data
    ELSE Elementwise("div", a.data, AsDoubles(b.data),
                     res.data, size, W)

\* finmath::simd::vector_mul_scalar(a, scalar, result, size)
vector_mul_scalar(a, scalar, res, size, W) ==
    IF ScalarGuard(a, res, size) THEN res.data
    ELSE Elementwise("mul", a.data, Broadcast(scalar, size),
                     res.data, size, W)

\* finmath::simd::vector_add_scalar(a, scalar, result, size)
vector_add_scalar(a, scalar, res, size, W) ==
    IF ScalarGuard(a, res, size) THEN res.data
    ELSE Elementwise("add", a.data, Broadcast(scalar, size),
                     res.data, size, W)

\* finmath::simd::dot_product(a, b, size): each chunk adds va * vb to vsum,
\* the cleanup loop adds a[i] * b[i].
dot_product(a, b, size, W) ==
    IF a.null \/ b.null \/ size = 0 THEN Zero
    ELSE Reduce(<<"sum">>,
                [k \in 1..size |-> RMul(a.data[k], R(b.data[k]))],
                0, size, W)

\* finmath::simd::vector_sum(a, size)
vector_sum(a, size, W) ==
    IF a.null \/ size = 0 THEN Zero
    ELSE VectorSum(a.data, 0, size, W)

\* vector_mean without the `if (size == 0) return 0.0;` of line 233.
vector_mean_NoSizeTest(a, size, W) ==
    DivDouble(vector_sum(a, size, W), R(size))

\* finmath::simd::vector_mean(a, size): only size is tested, a null a makes
\* vector_sum return 0.0.
vector_mean(a, size, W) ==
    IF size = 0 THEN Zero ELSE RDiv(vector_sum(a, size, W), R(size))

\* finmath::simd::vector_variance(a, size): only size is tested, so a null a
\* with a positive size is read through.  The outcomes of the call.
vector_variance(a, size, W) ==
    IF size = 0 THEN {Ok(<<Zero>>, <<>>)}
    ELSE IF a.null
    THEN {Crashed} \cup {Ok(<<g>>, <<>>) : g \in VecValues}
    ELSE {Ok(<<VectorVariance(a.data, 0, size, W)>>, <<>>)}

\* finmath::simd::vector_stddev(a, size): std::sqrt of the variance.
vector_stddev(a, size, W) ==
    {IF o.status = "ok" THEN Ok(<<Sqrt(o.out[1])>>, <<>>) ELSE o :
        o \in vector_variance(a, size, W)}

\* finmath::simd::vector_conditional_sum(a, size, positive)
vector_conditional_sum(a, size, positive, W) ==
    IF a.null \/ size = 0 THEN Zero
    ELSE VectorConditionalSum(a.data, 0, size, positive, W)

\* x > y for a maximum, x < y for a minimum.
Beats(isMax, x, y) == IF isMax THEN RGt(x, y) ELSE RLt(x, y)

\* One lane of vmax = max(vmax, va) (vmin = min(vmin, va)): _mm_max_pd and
\* _mm256_max_pd give the second operand unless the first is greater, so a
\* NaN va is kept and a NaN vmax is replaced; vmaxq_f64 gives NaN when
\* either operand is NaN.
LaneExtreme(isMax, neon, acc, x) ==
    IF neon /\ (acc = NaN \/ x = NaN) THEN NaN
    ELSE IF Beats(isMax, acc, x) THEN acc ELSE x

\* std::max(acc, x) (std::min(acc, x)) and the cleanup loop's
\* `if (a[i] > max_val) max_val = a[i];`: x replaces acc only if it beats it.
FoldExtreme(isMax, acc, x) == IF Beats(isMax, x, acc) THEN x ELSE acc

\* Lane l of vmax after c chunks, the first chunk starting at a[1]; every
\* lane starts as a[0].
RECURSIVE ExtremeLaneAcc(_, _, _, _, _, _)
ExtremeLaneAcc(isMax, neon, a, W, l, c) ==
    IF c = 0 THEN At(a, 0)
    ELSE LaneExtreme(isMax, neon, ExtremeLaneAcc(isMax, neon, a, W, l, c - 1),
                     At(a, 1 + (c - 1) * W + l))

\* std::max({temp[0], ..., temp[l]}).
RECURSIVE HorizontalExtreme(_, _, _, _, _, _)
HorizontalExtreme(isMax, neon, a, W, c, l) ==
    IF l = 0 THEN ExtremeLaneAcc(isMax, neon, a, W, 0, c)
    ELSE FoldExtreme(isMax, HorizontalExtreme(isMax, neon, a, W, c, l - 1),
                     ExtremeLaneAcc(isMax, neon, a, W, l, c))

\* The cleanup loop `for (; i < size; ++i)` from index k on.
RECURSIVE ExtremeTail(_, _, _, _, _)
ExtremeTail(isMax, a, k, n, acc) ==
    IF k >= n THEN acc
    ELSE ExtremeTail(isMax, a, k + 1, n, FoldExtreme(isMax, acc, At(a, k)))

\* max_val = a[0]; the chunk loop from i = 1; the horizontal maximum; the
\* cleanup loop.
Extreme(isMax, neon, a, n, W) ==
    LET done == ChunkedCount(n - 1, W)
        seed == IF W = 1 THEN At(a, 0)
                ELSE HorizontalExtreme(isMax, neon, a, W, done \div W, W - 1)
    IN  ExtremeTail(isMax, a, 1 + done, n, seed)

\* finmath::simd::vector_max(a, size): only size is tested, so a null a with
\* a positive size is read through; the two-lane build is SSE or NEON.  The
\* outcomes of the call.
vector_max(a, size, W) ==
    IF size = 0 THEN {Ok(<<Zero>>, <<>>)}
    ELSE IF a.null
    THEN {Crashed} \cup {Ok(<<g>>, <<>>) : g \in VecValues}
    ELSE {Ok(<<Extreme(TRUE, neon, a.data, size, W)>>, <<>>) :
              neon \in IF W = 2 THEN BOOLEAN ELSE {FALSE}}

\* finmath::simd::vector_min(a, size)
vector_min(a, size, W) ==
    IF size = 0 THEN {Ok(<<Zero>>, <<>>)}
    ELSE IF a.null
    THEN {Crashed} \cup {Ok(<<g>>, <<>>) : g \in VecValues}
    ELSE {Ok(<<Extreme(FALSE, neon, a.data, size, W)>>, <<>>) :
              neon \in IF W = 2 THEN BOOLEAN ELSE {FALSE}}

\* The caller owns buffers of one capacity and passes each pointer either
\* null or pointing to its buffer, with a size within the capacity.
InitSimd ==
    /\ \E cap \in 0..MaxLen :
        /\ vec_a \in {NullPtr} \cup {Ptr(d) : d \in [1..cap -> VecValues]}
        /\ vec_b \in {NullPtr} \cup
                     {Ptr([k \in 1..cap |-> b0 + k - 1]) : b0 \in VecBStarts}
        /\ vec_result \in {NullPtr, Ptr([k \in 1..cap |-> Unwritten])}
        /\ vec_size \in {0, 1, cap} \cap 0..cap
    /\ vec_scalar \in VecScalars
    /\ width \in Widths
    /\ prices = <<>>
    /\ window_size = 0
    /\ smoothing = <<1, 2>>
    /\ FrameIdle
    /\ NoCalls
    /\ NoOptions
    /\ NoGraph

\* One primitive is called on the buffers and its outcome kept: the result
\* buffer after an elementwise operation, the value of a reduction.
NextSimd ==
    \/ NoCalls /\ Call("vector_add",
           Ok(vector_add(vec_a, vec_b, vec_result, vec_size, width), <<>>))
    \/ NoCalls /\ Call("vector_sub",
           Ok(vector_sub(vec_a, vec_b, vec_result, vec_size, width), <<>>))
    \/ NoCalls /\ Call("vector_mul",
           Ok(vector_mul(vec_a, vec_b, vec_result, vec_size, width), <<>>))
    \/ NoCalls /\ Call("vector_div",
           Ok(vector_div(vec_a, vec_b, vec_result, vec_size, width), <<>>))
    \/ NoCalls /\ Call("vector_mul_scalar",
           Ok(vector_mul_scalar(vec_a, vec_scalar, vec_result, vec_size,
                                width), <<>>))
    \/ NoCalls /\ Call("vector_add_scalar",
           Ok(vector_add_scalar(vec_a, vec_scalar, vec_result, vec_size,
                                width), <<>>))
    \/ NoCalls /\ Call("dot_product",
           Ok(<<dot_product(vec_a, vec_b, vec_size, width)>>, <<>>))
    \/ NoCalls /\ Call("vector_sum",
           Ok(<<vector_sum(vec_a, vec_size, width)>>, <<>>))
    \/ NoCalls /\ Call("vector_mean",
           Ok(<<vector_mean(vec_a, vec_size, width)>>, <<>>))
    \/ NoCalls /\ \E o \in vector_variance(vec_a, vec_size, width) :
           Call("vector_variance", o)
    \/ NoCalls /\ \E o \in vector_stddev(vec_a, vec_size, width) :
           Call("vector_stddev", o)
    \/ NoCalls /\ \E o \in vector_max(vec_a, vec_size, width) :
           Call("vector_max", o)
    \/ NoCalls /\ \E o \in vector_min(vec_a, vec_size, width) :
           Call("vector_min", o)
    \/ NoCalls /\ Call("vector_conditional_sum_positive",
           Ok(<<vector_conditional_sum(vec_a, vec_size, TRUE, width)>>, <<>>))
    \/ NoCalls /\ Call("vector_conditional_sum_negative",
           Ok(<<vector_conditional_sum(vec_a, vec_size, FALSE, width)>>, <<>>))

SpecSimd == InitSimd /\ [][NextSimd]_vars

\* --------------------------------------------------------- smoothed RSI

\* price_changes[k] = prices[k+1] - prices[k]
PriceChanges(p) == [k \in 1..(Len(p) - 1) |-> RSub(p[k + 1], p[k])]

\* total_gain of compute_avg_gain over price_changes[start .. stop)
RECURSIVE TotalGain(_, _, _)
TotalGain(ch, start, stop) ==
    IF stop <= start THEN Zero
    ELSE LET t == TotalGain(ch, start, stop - 1)
             c == At(ch, stop - 1)
         IN  IF RGt(c, Zero) THEN RAdd(t, c) ELSE t

\* total_loss of compute_avg_loss over price_changes[start .. stop)
RECURSIVE TotalLoss(_, _, _)
TotalLoss(ch, start, stop) ==
    IF stop <= start THEN Zero
    ELSE LET t == TotalLoss(ch, start, stop - 1)
             c == At(ch, stop - 1)
         IN  IF RLt(c, Zero) THEN RAdd(t, RMul(R(-1), c)) ELSE t

compute_avg_gain(ch, start, w) == RDiv(TotalGain(ch, start, start + w), R(w))

compute_avg_loss(ch, start, w) == RDiv(TotalLoss(ch, start, start + w), R(w))

\* rs = avg_gain / avg_loss; rsi = 100.0 - (100.0 / (1.0 + rs)), avg_loss # 0
RsiOf(avg_gain, avg_loss) ==
    RSub(R(100), RDiv(R(100), RAdd(R(1), RDiv(avg_gain, avg_loss))))

\* (avg_gain * (window_size - 1) + (change > 0 ? change : 0)) / window_size
SmoothGain(avg_gain, change, w) ==
    RDiv(RAdd(RMul(avg_gain, R(w - 1)),
              IF RGt(change, Zero) THEN change ELSE Zero), R(w))

\* (avg_loss * (window_size - 1) - (change < 0 ? change : 0)) / window_size
SmoothLossList(avg_loss, change, w) ==
    RDiv(RSub(RMul(avg_loss, R(w - 1)),
              IF RLt(change, Zero) THEN change ELSE Zero), R(w))

\* A loss update that adds the negative change as it is.
SmoothLossSigned(avg_loss, change, w) ==
    RDiv(RAdd(RMul(avg_loss, R(w - 1)),
              IF RLt(change, Zero) THEN change ELSE Zero), R(w))

\* (avg_loss * (window_size - 1) + (change < 0 ? -change : 0)) / window_size
SmoothLoss(avg_loss, change, w) ==
    RDiv(RAdd(RMul(avg_loss, R(w - 1)),
              IF RLt(change, Zero) THEN RNeg(change) ELSE Zero), R(w))

\* A value that reads a flat market (no gain, no loss) as neutral.
RsiValueNeutral(avg_gain, avg_loss) ==
    IF avg_loss = Zero
    THEN (IF avg_gain = Zero THEN R(50) ELSE R(100))
    ELSE RsiOf(avg_gain, avg_loss)

\* The value pushed for a pair of averages.
RsiValue(avg_gain, avg_loss) ==
    IF avg_loss = Zero THEN R(100) ELSE RsiOf(avg_gain, avg_loss)

\* compute_smoothed_rsi, lines 79-95: the smoothing loop from index k on.
RECURSIVE RsiListLoop(_, _, _, _, _, _, _, _)
RsiListLoop(ch, w, k, avg_gain, avg_loss, values, folded, averages) ==
    IF k >= Len(ch) THEN OkWith(values, folded, averages)
    ELSE LET g == SmoothGain(avg_gain, At(ch, k), w)
             l == SmoothLossList(avg_loss, At(ch, k), w)
         IN  RsiListLoop(ch, w, k + 1, g, l,
                         Append(values, RsiValue(g, l)), Append(folded, k),
                         Append(averages, <<g, l>>))

\* A size test that throws, as the comment at line 47 considers.
compute_smoothed_rsi_Throws(p, w) ==
    IF Len(p) <= w
    THEN Throw("Insufficient data for the given window size.")
    ELSE IF w < 1 THEN Throw("Window size must be at least 1.")
    ELSE LET ch == PriceChanges(AsDoubles(p))
             avg_gain == compute_avg_gain(ch, 0, w)
             avg_loss == compute_avg_loss(ch, 0, w)
         IN  RsiListLoop(ch, w, w - 1, avg_gain, avg_loss,
                         <<RsiValue(avg_gain, avg_loss)>>, <<>>,
                         <<<<avg_gain, avg_loss>>>>)

\* compute_smoothed_rsi(prices, window_size)
compute_smoothed_rsi(p, w) ==
    IF Len(p) <= w THEN Ok(<<>>, <<>>)
    ELSE IF w < 1 THEN Throw("Window size must be at least 1.")
    ELSE LET ch == PriceChanges(AsDoubles(p))
             avg_gain == compute_avg_gain(ch, 0, w)
             avg_loss == compute_avg_loss(ch, 0, w)
         IN  RsiListLoop(ch, w, w - 1, avg_gain, avg_loss,
                         <<RsiValue(avg_gain, avg_loss)>>, <<>>,
                         <<<<avg_gain, avg_loss>>>>)

\* compute_smoothed_rsi_np and compute_smoothed_rsi_simd: the smoothing loop
\* from index k on (the two loops are the same statements).
RECURSIVE RsiLoop(_, _, _, _, _, _, _, _)
RsiLoop(ch, w, k, avg_gain, avg_loss, values, folded, averages) ==
    IF k >= Len(ch) THEN OkWith(values, folded, averages)
    ELSE LET g == SmoothGain(avg_gain, At(ch, k), w)
             l == SmoothLoss(avg_loss, At(ch, k), w)
         IN  RsiLoop(ch, w, k + 1, g, l,
                     Append(values, RsiValue(g, l)), Append(folded, k),
                     Append(averages, <<g, l>>))

\* compute_smoothed_rsi_np, lines 137-145: initial_gain over the first k changes.
RECURSIVE NpInitialGain(_, _)
NpInitialGain(ch, k) ==
    IF k = 0 THEN Zero
    ELSE IF RGt(At(ch, k - 1), Zero)
         THEN RAdd(NpInitialGain(ch, k - 1), At(ch, k - 1))
         ELSE NpInitialGain(ch, k - 1)

\* compute_smoothed_rsi_np, lines 137-145: initial_loss over the first k changes.
RECURSIVE NpInitialLoss(_, _)
NpInitialLoss(ch, k) ==
    IF k = 0 THEN Zero
    ELSE IF RGt(At(ch, k - 1), Zero)
         THEN NpInitialLoss(ch, k - 1)
         ELSE RAdd(NpInitialLoss(ch, k - 1), RMul(R(-1), At(ch, k - 1)))

\* compute_smoothed_rsi_np(prices_arr, window_size), a 1-dimensional array
compute_smoothed_rsi_np(p, w) ==
    IF Len(p) <= w THEN Ok(<<>>, <<>>)
    ELSE IF w < 1 THEN Throw("Window size must be at least 1.")
    ELSE LET ch == PriceChanges(AsDoubles(p))
             avg_gain == RDiv(NpInitialGain(ch, w), R(w))
             avg_loss == RDiv(NpInitialLoss(ch, w), R(w))
         IN  RsiLoop(ch, w, w, avg_gain, avg_loss,
                     <<RsiValue(avg_gain, avg_loss)>>, <<>>,
                     <<<<avg_gain, avg_loss>>>>)

\* compute_smoothed_rsi_simd(prices_arr, window_size), a 1-dimensional array
\* with a valid buffer, on a build of chunk width W
compute_smoothed_rsi_simd(p, w, W) ==
    IF Len(p) <= w THEN Ok(<<>>, <<>>)
    ELSE IF w < 1 THEN Throw("Window size must be at least 1.")
    ELSE LET ch == PriceChanges(AsDoubles(p))
             avg_gain == RDiv(VectorConditionalSum(ch, 0, w, TRUE, W), R(w))
             avg_loss == RDiv(VectorConditionalSum(ch, 0, w, FALSE, W), R(w))
         IN  RsiLoop(ch, w, w, avg_gain, avg_loss,
                     <<RsiValue(avg_gain, avg_loss)>>, <<>>,
                     <<<<avg_gain, avg_loss>>>>)

InitRsi ==
    /\ prices \in SeqsUpTo(PriceValues, MaxLen)
    /\ window_size \in WindowSizes
    /\ width \in Widths
    /\ smoothing = <<1, 2>>
    /\ FrameIdle
    /\ NoBuffers
    /\ NoCalls
    /\ NoOptions
    /\ NoGraph

NextRsi ==
    \/ Call("compute_smoothed_rsi",
           compute_smoothed_rsi(prices, window_size))
    \/ Call("compute_smoothed_rsi_np",
           compute_smoothed_rsi_np(prices, window_size))
    \/ Call("compute_smoothed_rsi_simd",
           compute_smoothed_rsi_simd(prices, window_size, width))

SpecRsi == InitRsi /\ [][NextRsi]_vars

\* ------------------------------------------------- simple moving average

\* use_cache_blocking = (window_size > 1000) || (num_data > 100000)
BlockingWindow == 1000

BlockingData == 100000

UseCacheBlocking(n, w) == w > BlockingWindow \/ n > BlockingData

\* finmath::simd::vector_sum_blocked(&a[off], n): the sum of the window.
VectorSumBlocked(a, off, n, W) ==
    IF n = 0 THEN Zero ELSE ScalarTail(<<"sum">>, a, off, 0, n, Zero)

\* std::accumulate(first + lo, first + hi, 0.0)
RECURSIVE Accumulate(_, _, _)
Accumulate(a, lo, hi) ==
    IF hi <= lo THEN Zero ELSE RAdd(Accumulate(a, lo, hi - 1), At(a, hi - 1))

\* simple_moving_average, line 29: the sum of the window starting at k.
WindowSum(a, k, w) == Accumulate(a, k, k + w)

\* simple_moving_average, lines 26-34: the windows starting at 0 .. last.
SmaListLoop(a, w, last) ==
    [k \in 1..(last + 1) |-> RDiv(WindowSum(a, k - 1, w), R(w))]

\* A size test that also turns away a window as long as the data.
simple_moving_average_StrictSize(d, w) ==
    IF w = 0 THEN Throw("Window size must be greater than 0.")
    ELSE IF Len(d) <= w THEN Ok(<<>>, <<>>)
    ELSE Ok(SmaListLoop(AsDoubles(d), w, Len(d) - w), <<>>)

\* simple_moving_average(data, window_size)
simple_moving_average(d, w) ==
    IF w = 0 THEN Throw("Window size must be greater than 0.")
    ELSE IF Len(d) < w THEN Ok(<<>>, <<>>)
    ELSE Ok(SmaListLoop(AsDoubles(d), w, Len(d) - w), <<>>)

\* A sliding update that never drops the outgoing element.
SlideSumNoDrop(current_sum, incoming, outgoing) == RAdd(current_sum, incoming)

\* current_sum += data_ptr[i] - data_ptr[i - window_size]
SlideSum(current_sum, incoming, outgoing) ==
    RAdd(current_sum, RSub(incoming, outgoing))

\* simple_moving_average_np, lines 71-76: the sliding loop from index k on.
RECURSIVE SmaNpLoop(_, _, _, _, _)
SmaNpLoop(a, w, k, current_sum, averages) ==
    IF k >= Len(a) THEN averages
    ELSE LET sum == SlideSum(current_sum, At(a, k), At(a, k - w))
         IN  SmaNpLoop(a, w, k + 1, sum, Append(averages, RDiv(sum, R(w))))

\* simple_moving_average_np(data_arr, window_size), a 1-dimensional array
simple_moving_average_np(d, w) ==
    IF w = 0 THEN Throw("Window size must be greater than 0.")
    ELSE IF Len(d) < w THEN Ok(<<>>, <<>>)
    ELSE LET a == AsDoubles(d)
             current_sum == Accumulate(a, 0, w)
         IN  Ok(SmaNpLoop(a, w, w, current_sum,
                          <<RDiv(current_sum, R(w))>>), <<>>)

\* simple_moving_average_simd, lines 43-56: one average per window.
SmaSimdLoop(a, w, num_windows, W) ==
    [k \in 1..num_windows |->
        RDiv(IF UseCacheBlocking(Len(a), w)
             THEN VectorSumBlocked(a, k - 1, w, W)
             ELSE VectorSum(a, k - 1, w, W), R(w))]

\* simple_moving_average_simd(data_arr, window_size), a 1-dimensional array
\* with a valid buffer, on a build of chunk width W
simple_moving_average_simd(d, w, W) ==
    IF w = 0 THEN Throw("Window size must be greater than 0")
    ELSE IF Len(d) < w THEN Ok(<<>>, <<>>)
    ELSE Ok(SmaSimdLoop(AsDoubles(d), w, Len(d) - w + 1, W), <<>>)

InitSma ==
    /\ prices \in SeqsUpTo(PriceValues, MaxLen)
    /\ window_size \in WindowSizes
    /\ width \in Widths
    /\ smoothing = <<1, 2>>
    /\ FrameIdle
    /\ NoBuffers
    /\ NoCalls
    /\ NoOptions
    /\ NoGraph

NextSma ==
    \/ Call("simple_moving_average",
           simple_moving_average(prices, window_size))
    \/ Call("simple_moving_average_np",
           simple_moving_average_np(prices, window_size))
    \/ Call("simple_moving_average_simd",
           simple_moving_average_simd(prices, window_size, width))

SpecSma == InitSma /\ [][NextSma]_vars

\* ---------------------------------------------------------------- EMA

\* smoothing_factor <= 0 || smoothing_factor >= 1
BadSmoothing(alpha) == RLe(alpha, Zero) \/ RLe(R(1), alpha)

\* A window entry point that looks at the input before the window.
compute_ema_EmptyFirst(p, w) ==
    IF Len(p) = 0 THEN Ok(<<>>, <<>>)
    ELSE IF w = 0 THEN Throw("EMA window cannot be zero.")
    ELSE Ok(AsDoubles(p), <<>>)

\* A blend that weights the previous value by alpha instead of 1 - alpha.
EmaStepSwapped(price, prev, alpha) ==
    RAdd(RMul(RSub(prev, price), alpha), price)

\* ((prices[i] - ema[i - 1]) * smoothing_factor) + ema[i - 1]
EmaStep(price, prev, alpha) == RAdd(RMul(RSub(price, prev), alpha), prev)

\* prices_ptr[i] * smoothing_factor + ema[i - 1] * one_minus_smoothing
EmaStepSimd(price, prev, alpha, one_minus_smoothing) ==
    RAdd(RMul(price, alpha), RMul(prev, one_minus_smoothing))

\* compute_ema_with_smoothing, lines 31-37: ema[0 .. k].
RECURSIVE EmaLoop(_, _, _)
EmaLoop(a, alpha, k) ==
    IF k = 0 THEN <<At(a, 0)>>
    ELSE LET ema == EmaLoop(a, alpha, k - 1)
         IN  Append(ema, EmaStep(At(a, k), At(ema, k - 1), alpha))

\* compute_ema_with_smoothing_simd, lines 45-55: ema[0 .. k].
RECURSIVE EmaSimdLoop(_, _, _, _)
EmaSimdLoop(a, alpha, one_minus_smoothing, k) ==
    IF k = 0 THEN <<At(a, 0)>>
    ELSE LET ema == EmaSimdLoop(a, alpha, one_minus_smoothing, k - 1)
         IN  Append(ema, EmaStepSimd(At(a, k), At(ema, k - 1), alpha,
                                     one_minus_smoothing))

\* compute_ema_with_smoothing(prices, smoothing_factor)
compute_ema_with_smoothing(p, alpha) ==
    IF BadSmoothing(alpha)
    THEN Throw("EMA smoothing factor must be between 0 and 1 (exclusive).")
    ELSE IF Len(p) = 0 THEN Ok(<<>>, <<>>)
    ELSE Ok(EmaLoop(AsDoubles(p), alpha, Len(p) - 1), <<>>)

\* compute_ema_with_smoothing_np(prices_arr, smoothing_factor), a
\* 1-dimensional array; the loop is that of the list version.
compute_ema_with_smoothing_np(p, alpha) ==
    IF BadSmoothing(alpha)
    THEN Throw("EMA smoothing factor must be between 0 and 1 (exclusive).")
    ELSE IF Len(p) = 0 THEN Ok(<<>>, <<>>)
    ELSE Ok(EmaLoop(AsDoubles(p), alpha, Len(p) - 1), <<>>)

\* compute_ema_with_smoothing_simd(prices_arr, smoothing_factor), a
\* 1-dimensional array with a valid buffer
compute_ema_with_smoothing_simd(p, alpha) ==
    IF BadSmoothing(alpha)
    THEN Throw("EMA smoothing factor must be between 0 and 1 (exclusive).")
    ELSE IF Len(p) = 0 THEN Ok(<<>>, <<>>)
    ELSE Ok(EmaSimdLoop(AsDoubles(p), alpha, RSub(R(1), alpha), Len(p) - 1),
            <<>>)

\* multiplier = 2.0 / (static_cast<double>(window) + 1.0)
Multiplier(w) == RDiv(R(2), RAdd(R(w), R(1)))

\* compute_ema(prices, window)
compute_ema(p, w) ==
    IF w = 0 THEN Throw("EMA window cannot be zero.")
    ELSE IF Len(p) = 0 THEN Ok(<<>>, <<>>)
    ELSE compute_ema_with_smoothing(p, Multiplier(w))

\* compute_ema_np(prices_arr, window)
compute_ema_np(p, w) ==
    IF w = 0 THEN Throw("EMA window cannot be zero.")
    ELSE compute_ema_with_smoothing_np(p, Multiplier(w))

\* compute_ema_simd(prices_arr, window)
compute_ema_simd(p, w) ==
    IF w = 0 THEN Throw("EMA window cannot be zero.")
    ELSE compute_ema_with_smoothing_simd(p, Multiplier(w))

\* Calls of the window-based entry points.
InitEma ==
    /\ prices \in SeqsUpTo(PriceValues, MaxLen)
    /\ window_size \in WindowSizes
    /\ width = 1
    /\ smoothing = <<1, 2>>
    /\ FrameIdle
    /\ NoBuffers
    /\ NoCalls
    /\ NoOptions
    /\ NoGraph

NextEma ==
    \/ Call("compute_ema",
           compute_ema(prices, window_size))
    \/ Call("compute_ema_np",
           compute_ema_np(prices, window_size))
    \/ Call("compute_ema_simd",
           compute_ema_simd(prices, window_size))

SpecEma == InitEma /\ [][NextEma]_vars

\* Calls of the smoothing-factor entry points.
InitEmaSmoothing ==
    /\ prices \in SeqsUpTo(PriceValues, MaxLen)
    /\ window_size = 1
    /\ width = 1
    /\ smoothing \in SmoothingValues
    /\ FrameIdle
    /\ NoBuffers
    /\ NoCalls
    /\ NoOptions
    /\ NoGraph

NextEmaSmoothing ==
    \/ Call("compute_ema_with_smoothing",
           compute_ema_with_smoothing(prices, smoothing))
    \/ Call("compute_ema_with_smoothing_np",
           compute_ema_with_smoothing_np(prices, smoothing))
    \/ Call("compute_ema_with_smoothing_simd",
           compute_ema_with_smoothing_simd(prices, smoothing))

SpecEmaSmoothing == InitEmaSmoothing /\ [][NextEmaSmoothing]_vars

\* ---------------------------------------------------- rolling volatility

\* A finite log-return is held as its multiple of ln 2 (every price drawn
\* is a signed power of two or 0), and an annualized volatility as the surd
\* of 252 times the variance of those multiples: the value is that surd
\* times ln 2.  The values are exact; where the code's doubles can leave
\* the exact value for a NaN (compute_std), the function gives the set of
\* the values the builds can return.

\* prices[i] / prices[i - 1] in IEEE-754 arithmetic.
PriceRatio(next, prev) ==
    IF prev = 0
    THEN (IF next > 0 THEN PosInf ELSE IF next < 0 THEN NegInf ELSE NaN)
    ELSE Norm(next, prev)

\* log2 of a positive rational that is a power of two.
RECURSIVE Log2(_)
Log2(q) ==
    IF q = R(1) THEN 0
    ELSE IF RLt(R(1), q) THEN 1 + Log2(RDiv(q, R(2)))
    ELSE Log2(RMul(q, R(2))) - 1

\* std::log(x): NaN for a negative or NaN argument, -Inf at zero.
Log(x) ==
    IF x = NaN \/ x = NegInf THEN NaN
    ELSE IF x = PosInf THEN PosInf
    ELSE IF RLt(x, Zero) THEN NaN
    ELSE IF x = Zero THEN NegInf
    ELSE R(Log2(x))

\* compute_log_returns(prices)
compute_log_returns(p) ==
    [k \in 1..(Len(p) - 1) |-> Log(PriceRatio(p[k + 1], p[k]))]

\* std::inner_product(first + lo, first + hi, first + lo, 0.0)
RECURSIVE InnerProduct(_, _, _)
InnerProduct(a, lo, hi) ==
    IF hi <= lo THEN Zero
    ELSE RAdd(InnerProduct(a, lo, hi - 1), RMul(At(a, hi - 1), At(a, hi - 1)))

\* A deviation that leaves out the `- mean * mean` of line 27.
compute_std_Uncentered(a, off, n) ==
    IF \E k \in off..(off + n - 1) : ~IsFinite(At(a, k)) THEN {NaN}
    ELSE {Sqrt(RDiv(InnerProduct(a, off, off + n), R(n)))}

\* compute_std(window) for the window a[off .. off+n): the values the
\* builds can return.  A window holding a non-finite log-return has a
\* non-finite or NaN mean and an infinite or NaN sq_sum, and
\* sq_sum/n - mean*mean is NaN.  Line 27 takes std::sqrt of the difference
\* of two rounded doubles with no guard on the sign: where the exact
\* difference is 0 and the mean is not (a window of equal non-zero
\* log-returns), the double is a residue of either sign, depending on n
\* and on whether the build contracts the expression to a fused
\* multiply-add, and the square root of a negative residue is NaN.
compute_std(a, off, n) ==
    IF \E k \in off..(off + n - 1) : ~IsFinite(At(a, k)) THEN {NaN}
    ELSE LET m == RDiv(Accumulate(a, off, off + n), R(n))
             sq_sum == InnerProduct(a, off, off + n)
             diff == RSub(RDiv(sq_sum, R(n)), RMul(m, m))
         IN  IF diff = Zero /\ m # Zero THEN {Sqrt(diff), NaN}
             ELSE {Sqrt(diff)}

\* std::sqrt(252)
Annualization == 252

\* std_dev * std::sqrt(252)
Annualize(std_dev) ==
    IF Len(std_dev) = 1 THEN std_dev
    ELSE <<"sqrt">> \o RMul(<<std_dev[2], std_dev[3]>>, R(Annualization))

\* A loop that stops one window early (i < size - window_size).
VolLoopShort(lr, w, last) ==
    LET vols(k) == {Annualize(sd) : sd \in compute_std(lr, k - 1, w)}
    IN  {v \in [1..last -> UNION {vols(k) : k \in 1..last}] :
            \A k \in 1..last : v[k] \in vols(k)}

\* rolling_volatility, lines 54-67: one volatility per window, each the
\* annualized compute_std of its window; the vectors the loop can build.
VolLoop(lr, w, last) ==
    LET vols(k) == {Annualize(sd) : sd \in compute_std(lr, k - 1, w)}
    IN  {v \in [1..(last + 1) -> UNION {vols(k) : k \in 1..(last + 1)}] :
            \A k \in 1..(last + 1) : v[k] \in vols(k)}

\* A size check that compares the window with the number of prices.
rolling_volatility_LooseBound(p, w) ==
    LET log_returns == compute_log_returns(p)
    IN  IF w = 0 THEN {Throw("Window size cannot be zero.")}
        ELSE IF Len(log_returns) = 0 \/ Len(p) < w
        THEN {Throw("Window size is too large for the number of price returns.")}
        ELSE {Ok(v, <<>>) : v \in VolLoop(log_returns, w, Len(log_returns) - w)}

\* rolling_volatility(prices, window_size): the outcomes the builds can
\* give.
rolling_volatility(p, w) ==
    LET log_returns == compute_log_returns(p)
    IN  IF w = 0 THEN {Throw("Window size cannot be zero.")}
        ELSE IF Len(log_returns) = 0 \/ Len(log_returns) < w
        THEN {Throw("Window size is too large for the number of price returns.")}
        ELSE {Ok(v, <<>>) : v \in VolLoop(log_returns, w, Len(log_returns) - w)}

\* rolling_volatility_np, lines 117-122: the index of the first price
\* prices_ptr[i - 1] <= 0 met by the loop, or 0 when it meets none.
NpFirstBadPrice(p) ==
    IF \E k \in 1..(Len(p) - 1) : At(p, k - 1) <= 0
    THEN CHOOSE k \in 1..(Len(p) - 1) :
             /\ At(p, k - 1) <= 0
             /\ \A j \in 1..(k - 1) : At(p, j - 1) > 0
    ELSE 0

\* rolling_volatility_np(prices_arr, window_size), a 1-dimensional array:
\* the outcomes the builds can give.
rolling_volatility_np(p, w) ==
    IF w = 0 THEN {Throw("Window size cannot be zero.")}
    ELSE IF Len(p) < 2
    THEN {Throw("Insufficient data: requires at least 2 prices.")}
    ELSE IF w >= Len(p)
    THEN {Throw("Window size must be smaller than the number of prices.")}
    ELSE IF NpFirstBadPrice(p) # 0
    THEN {Throw("Price must be positive for log return calculation.")}
    ELSE LET log_returns == compute_log_returns(p)
         IN  IF Len(log_returns) < w
             THEN {Throw("Window size is larger than the number of log returns.")}
             ELSE {Ok(v, <<>>) :
                      v \in VolLoop(log_returns, w, Len(log_returns) - w)}

\* finmath::simd::vector_stddev_blocked(&a[off], n): the standard
\* deviation of the window.
VectorStddevBlocked(a, off, n, W) == VectorStddev(a, off, n, 1)

\* rolling_volatility_simd, lines 54-67: one volatility per window.
VolSimdLoop(lr, w, num_windows, use_cache_blocking, W) ==
    [k \in 1..num_windows |->
        Annualize(IF use_cache_blocking
                  THEN VectorStddevBlocked(lr, k - 1, w, W)
                  ELSE VectorStddev(lr, k - 1, w, W))]

\* rolling_volatility_simd(prices_arr, window_size), a 1-dimensional array
\* with a valid buffer, on a build of chunk width W
rolling_volatility_simd(p, w, W) ==
    IF Len(p) < w + 1 THEN Throw("Need at least window_size + 1 prices")
    ELSE IF w < 2 THEN Throw("Window size must be at least 2")
    ELSE IF \E k \in 0..(Len(p) - 2) : At(p, k) <= 0 \/ At(p, k + 1) <= 0
    THEN Throw("All prices must be positive for log return calculation")
    ELSE Ok(VolSimdLoop(compute_log_returns(p), w, Len(p) - w,
                        UseCacheBlocking(Len(p), w), W), <<>>)

InitVol ==
    /\ prices \in SeqsUpTo(VolPriceValues, MaxLen)
    /\ window_size \in WindowSizes
    /\ width \in Widths
    /\ smoothing = <<1, 2>>
    /\ FrameIdle
    /\ NoBuffers
    /\ NoCalls
    /\ NoOptions
    /\ NoGraph

NextVol ==
    \/ \E o \in rolling_volatility(prices, window_size) :
           Call("rolling_volatility", o)
    \/ \E o \in rolling_volatility_np(prices, window_size) :
           Call("rolling_volatility_np", o)
    \/ Call("rolling_volatility_simd",
           rolling_volatility_simd(prices, window_size, width))

SpecVol == InitVol /\ [][NextVol]_vars

\* ------------------------------------- every windowed function, one input

InitWindowed ==
    /\ prices \in SeqsUpTo(WindowedPriceValues, ShortLen)
    /\ window_size \in 0..(ShortLen + 1)
    /\ width \in Widths
    /\ smoothing = <<1, 2>>
    /\ FrameIdle
    /\ NoBuffers
    /\ NoCalls
    /\ NoOptions
    /\ NoGraph

NextWindowed ==
    \/ NextStd
    \/ NextSma
    \/ NextVol
    \/ NextEma

SpecWindowed == InitWindowed /\ [][NextWindowed]_vars

\* ----------------------------------------- black_scholes_multiple_calls

\* xsimd::batch<double>::size of the builds: SSE2/NEON and AVX.
BatchWidths == {2, 4}

\* Numbers of options drawn: none, fewer than a batch, whole batches, and
\* whole batches with a remainder.
OptionCounts == 0..(MaxLen + 2)

\* A write to a result element: by the task launched for the batch at
\* `at`, or by the calling thread in the tail loop at index `at`.
ByTask(at) == [by |-> "task", at |-> at]

ByMain(at) == [by |-> "main", at |-> at]

\* Line 128: num_options & ~(simd_width - 1), simd_width a power of two.
TailStart(n, W) == n - (n % W)

\* Lines 98-103: results(num_options), no future yet, i = 0.
BsEnter ==
    /\ pc = "call"
    /\ pc' = "launching"
    /\ results' = [k \in 1..num_options |-> <<>>]
    /\ futures' = <<>>
    /\ joined' = 0
    /\ i' = 0
    /\ UNCHANGED <<inputs, window, mean, squared_sum, price_out, result,
                   error, rounded, ret>>

\* Lines 105-121: the loop test, and one std::async of the batch at i.
BsLaunch ==
    /\ pc = "launching"
    /\ IF i + width - 1 < num_options
       THEN /\ futures' = Append(futures, [i |-> i, j |-> 0])
            /\ i' = i + width
            /\ pc' = pc
       ELSE /\ pc' = "joining"
            /\ UNCHANGED <<futures, i>>
    /\ UNCHANGED <<inputs, results, joined, window, mean, squared_sum,
                   price_out, result, error, rounded, ret>>

\* Lines 117-119, in the thread of task t: results[i + j] = call_result.get(j).
BsLane ==
    \E t \in 1..Len(futures) :
        /\ futures[t].j < width
        /\ results' = [results EXCEPT ![futures[t].i + futures[t].j + 1] =
                           Append(@, ByTask(futures[t].i))]
        /\ futures' = [futures EXCEPT ![t].j = @ + 1]
        /\ UNCHANGED <<inputs, joined, frame, ret>>

\* BsJoin with a future.get() that does not wait for its task.
BsJoinNoWait ==
    /\ pc = "joining"
    /\ \/ /\ joined < Len(futures)
          /\ joined' = joined + 1
          /\ UNCHANGED <<pc, i>>
       \/ /\ joined = Len(futures)
          /\ pc' = "tail"
          /\ i' = TailStart(num_options, width)
          /\ UNCHANGED joined
    /\ UNCHANGED <<inputs, futures, results, window, mean, squared_sum,
                   price_out, result, error, rounded, ret>>

\* Lines 123-125: future.get() returns once the task has run to its end;
\* after the last future the tail loop starts at TailStart.
BsJoin ==
    /\ pc = "joining"
    /\ \/ /\ joined < Len(futures)
          /\ futures[joined + 1].j = width
          /\ joined' = joined + 1
          /\ UNCHANGED <<pc, i>>
       \/ /\ joined = Len(futures)
          /\ pc' = "tail"
          /\ i' = TailStart(num_options, width)
          /\ UNCHANGED joined
    /\ UNCHANGED <<inputs, futures, results, window, mean, squared_sum,
                   price_out, result, error, rounded, ret>>

\* Lines 128-132: one scalar pricing of the tail loop, then return results.
BsTail ==
    /\ pc = "tail"
    /\ IF i < num_options
       THEN /\ results' = [results EXCEPT ![i + 1] = Append(@, ByMain(i))]
            /\ i' = i + 1
            /\ pc' = pc
       ELSE /\ pc' = "returned"
            /\ UNCHANGED <<results, i>>
    /\ UNCHANGED <<inputs, futures, joined, window, mean, squared_sum,
                   price_out, result, error, rounded, ret>>

InitBs ==
    /\ num_options \in OptionCounts
    /\ width \in BatchWidths
    /\ NoTasks
    /\ prices = <<>>
    /\ window_size = 0
    /\ smoothing = <<1, 2>>
    /\ FrameIdle
    /\ NoBuffers
    /\ NoCalls
    /\ NoGraph

NextBs ==
    \/ BsEnter
    \/ BsLaunch
    \/ BsLane
    \/ BsJoin
    \/ BsTail

SpecBs == InitBs /\ [][NextBs]_vars

\* ------------------------------------------------ detectArbitrageBellman

\* Node(): the default-constructed std::string.
NoNode == ""

\* The currencies of the graphs drawn; the empty string is a std::string.
Nodes == {NoNode, "A", "B"}

\* Exchange rates drawn: powers of two, so that every log-weight is a
\* whole multiple of ln 2, and one non-positive rate.
RateValues == {<<-1, 1>>, <<1, 2>>, <<2, 1>>}

\* The edges <<from, to, rate>> a graph is built from.
EdgeChoices == Nodes \X Nodes \X RateValues

\* The adjacency list holding the edges es, each node's neighbours in the
\* order of es: graph[from] is the vector of (to, rate).
RECURSIVE NeighboursOf(_, _, _)
NeighboursOf(es, from, k) ==
    IF k > Len(es) THEN <<>>
    ELSE (IF es[k][1] = from THEN <<<<es[k][2], es[k][3]>>>> ELSE <<>>)
         \o NeighboursOf(es, from, k + 1)

AdjListOf(es) ==
    [from \in {es[k][1] : k \in 1..Len(es)} |-> NeighboursOf(es, from, 1)]

\* Lines 15-21: the neighbours kept (rate <= 0.0 skipped) with weight
\* -log(rate), in multiples of ln 2.
RECURSIVE LogEdges(_, _)
LogEdges(neighbors, k) ==
    IF k > Len(neighbors) THEN <<>>
    ELSE (IF RLe(neighbors[k][2], Zero) THEN <<>>
          ELSE <<<<neighbors[k][1], RNeg(Log(neighbors[k][2]))>>>>)
         \o LogEdges(neighbors, k + 1)

\* Lines 13-22: logGraph has a key for every node with an edge kept.
LogGraph(g) ==
    [from \in {n \in DOMAIN g : LogEdges(g[n], 1) # <<>>} |->
         LogEdges(g[from], 1)]

\* The orders in which a std::unordered_map with the keys S is iterated.
IterationOrders(S) ==
    {o \in [1..Cardinality(S) -> S] : \A n \in S : \E k \in DOMAIN o : o[k] = n}

\* Lines 28-34 and 39: dist and parent hold an entry for each key of
\* logGraph; operator[] gives any other node 0.0 and Node() on first use.
RelaxStart(lg) ==
    [dist |-> [n \in Nodes |-> Zero],
     parent |-> [n \in Nodes |-> IF n \in DOMAIN lg THEN n ELSE NoNode],
     lastUpdated |-> NoNode,
     anyUpdate |-> FALSE]

\* Lines 46-51: the relaxation of one edge.
RelaxEdge(st, node, e) ==
    IF RLt(RAdd(st.dist[node], e[2]), st.dist[e[1]])
    THEN [dist |-> [st.dist EXCEPT ![e[1]] = RAdd(st.dist[node], e[2])],
          parent |-> [st.parent EXCEPT ![e[1]] = node],
          lastUpdated |-> e[1],
          anyUpdate |-> TRUE]
    ELSE st

\* Lines 45-52: the edges of one node, from the k-th.
RECURSIVE RelaxNeighbors(_, _, _, _)
RelaxNeighbors(st, node, neighbors, k) ==
    IF k > Len(neighbors) THEN st
    ELSE RelaxNeighbors(RelaxEdge(st, node, neighbors[k]), node, neighbors,
                        k + 1)

\* Lines 44-53: the nodes of logGraph in iteration order, from the k-th.
RECURSIVE RelaxPass(_, _, _, _)
RelaxPass(st, lg, order, k) ==
    IF k > Len(order) THEN st
    ELSE RelaxPass(RelaxNeighbors(st, order[k], lg[order[k]], 1), lg, order,
                   k + 1)

\* Lines 40-58: the passes from the k-th (the source's i) to the last; a
\* pass without an update ends the search (anyUpdate is FALSE in the state
\* returned).
RECURSIVE RelaxLoop(_, _, _, _, _)
RelaxLoop(st, lg, order, k, numVertices) ==
    IF k >= numVertices THEN st
    ELSE LET after == RelaxPass([st EXCEPT !.lastUpdated = NoNode,
                                           !.anyUpdate = FALSE],
                                lg, order, 1)
         IN  IF ~after.anyUpdate THEN after
             ELSE RelaxLoop(after, lg, order, k + 1, numVertices)

\* Lines 64-66: cycleStart = parent[cycleStart], k times.
RECURSIVE WalkBack(_, _, _)
WalkBack(parent, node, k) ==
    IF k = 0 THEN node ELSE WalkBack(parent, parent[node], k - 1)

\* Lines 70-73: the nodes pushed by the do-while from curr on.  A walk
\* that has pushed more nodes than there are without meeting cycleStart
\* never meets it: the loop does not end.
RECURSIVE CollectCycle(_, _, _, _)
CollectCycle(parent, curr, cycleStart, pushed) ==
    IF pushed > Cardinality(Nodes) THEN <<"endless">>
    ELSE IF parent[curr] = cycleStart THEN <<curr>>
    ELSE LET rest == CollectCycle(parent, parent[curr], cycleStart,
                                  pushed + 1)
         IN  IF rest = <<"endless">> THEN rest ELSE <<curr>> \o rest

\* std::reverse.
Reverse(s) == [k \in 1..Len(s) |-> s[Len(s) + 1 - k]]

\* A call that never returns.
Endless ==
    [status |-> "endless", out |-> <<>>, trace |-> <<>>, what |-> "",
     steps |-> <<>>]

\* Lines 60-81: the cycle rebuilt from the last node updated.
Reconstruct(st, numVertices) ==
    IF st.lastUpdated = NoNode THEN Ok(<<>>, <<>>)
    ELSE LET cycleStart == WalkBack(st.parent, st.lastUpdated, numVertices)
             pushed == CollectCycle(st.parent, cycleStart, cycleStart, 1)
         IN  IF pushed = <<"endless">> THEN Endless
             ELSE Ok(Reverse(pushed \o <<cycleStart>>), <<>>)

\* detectArbitrageBellman: a set, one outcome per iteration order of
\* logGraph.
detectArbitrageBellman(g) ==
    LET logGraph == LogGraph(g)
        numVertices == Cardinality(DOMAIN logGraph)
    IN  IF DOMAIN logGraph = {} THEN {Ok(<<>>, <<>>)}
        ELSE {LET st == RelaxLoop(RelaxStart(logGraph), logGraph, order, 0,
                                  numVertices)
              IN  IF ~st.anyUpdate THEN Ok(<<>>, <<>>)
                  ELSE Reconstruct(st, numVertices) :
                  order \in IterationOrders(DOMAIN logGraph)}

InitBellman ==
    /\ graph \in {AdjListOf(es) : es \in SeqsUpTo(EdgeChoices, MaxEdges)}
    /\ NoOptions
    /\ prices = <<>>
    /\ window_size = 0
    /\ width = 1
    /\ smoothing = <<1, 2>>
    /\ FrameIdle
    /\ NoBuffers
    /\ NoCalls

\* The function is called on the graph and its outcome kept.
NextBellman ==
    \E o \in detectArbitrageBellman(graph) : Call("detectArbitrageBellman", o)

SpecBellman == InitBellman /\ [][NextBellman]_vars

\* ---------------------------------------------------- direct recomputation

\* prices[lo] + ... + prices[hi] (0-based, inclusive), exactly.
RECURSIVE SumRange(_, _, _)
SumRange(s, lo, hi) ==
    IF hi < lo THEN Zero ELSE RAdd(SumRange(s, lo, hi - 1), R(At(s, hi)))

\* The average of prices[lo..hi].
DirectMean(s, lo, hi) == RDiv(SumRange(s, lo, hi), R(hi - lo + 1))

\* The sum over prices[lo..hi] of the squared deviation from m.
RECURSIVE SumSqDevFrom(_, _, _, _)
SumSqDevFrom(s, lo, hi, m) ==
    IF hi < lo THEN Zero
    ELSE RAdd(SumSqDevFrom(s, lo, hi - 1, m),
              RMul(RSub(R(At(s, hi)), m), RSub(R(At(s, hi)), m)))

DirectSumSqDev(s, lo, hi) == SumSqDevFrom(s, lo, hi, DirectMean(s, lo, hi))

\* The population standard deviation of prices[lo..hi].
DirectStdDev(s, lo, hi) ==
    Sqrt(RDiv(DirectSumSqDev(s, lo, hi), R(hi - lo + 1)))

\* ------------------------------------------- claims: rolling_std_dev_fast

\* The value stored at position j is the directly recomputed deviation of
\* the w-wide window ending at j; where the window's deviation is 0 and the
\* accumulators carry a rounding error, the stored double lies outside
\* exact arithmetic and may also be the NaN of a negative residue.
StoredIsDirect(j, w) ==
    \/ At(result, j) = DirectStdDev(prices, j - w + 1, j)
    \/ /\ rounded
       /\ DirectSumSqDev(prices, j - w + 1, j) = Zero
       /\ At(result, j) = NaN

\* C1: in exact arithmetic, for 1 <= window_size <= N, once the first value
\* has been stored the accumulators are the mean and the sum of squared
\* deviations of the window ending at the last processed position i-1, the
\* value computed from them is the population standard deviation of that
\* window recomputed directly, and every position j with window-1 <= j < i
\* holds the directly recomputed deviation of prices[j-window+1 .. j].
C1_IncrementalEqualsDirect ==
    (pc \in {"sliding", "returned"} /\ window_size >= 1
        /\ window_size <= Len(prices)) =>
        /\ mean = DirectMean(prices, i - window_size, i - 1)
        /\ squared_sum = DirectSumSqDev(prices, i - window_size, i - 1)
        /\ StdOf(squared_sum, window) =
               DirectStdDev(prices, i - window_size, i - 1)
        /\ \A j \in (window_size - 1)..(i - 1) :
               StoredIsDirect(j, window_size)

\* C1 witness: a call with 2 <= window_size < N has slid over the whole
\* input and its last window is not constant.
C1_Witness ==
    /\ pc = "returned"
    /\ window_size >= 2
    /\ window_size + 2 <= Len(prices)
    /\ At(result, Len(prices) - 1) # Sqrt(Zero)
    /\ At(result, Len(prices) - 1) # At(result, Len(prices) - 2)

\* C6 as stated: the call returns max(0, N - window_size + 1) values.
C6_ReturnsOnePerWindow ==
    pc = "returned" =>
        Len(result) = Max(0, Len(prices) - window_size + 1)

\* C6 amended: for N >= 1 the call returns N values: min(window_size, N) - 1
\* leading 0.0 placeholders that are never written, then one value per
\* valid window position.
C6_ReturnsInputLength ==
    (pc = "returned" /\ Len(prices) >= 1) =>
        /\ Len(result) = Len(prices)
        /\ \A j \in 0..(Min(window_size, Len(prices)) - 2) :
               At(result, j) = Zero
        /\ \A j \in (Min(window_size, Len(prices)) - 1)..(Len(prices) - 1) :
               StoredIsDirect(j, Min(window_size, Len(prices)))

\* C6 witness: a returned call with placeholders before the first value.
C6_Witness ==
    /\ pc = "returned"
    /\ window_size >= 3
    /\ Len(prices) > window_size
    /\ Len(result) = Len(prices)
    /\ At(result, Len(prices) - 1) # Zero

\* C7: with window_size > N >= 1 the call neither throws nor faults, the
\* effective window is N, and the last value returned is the population
\* standard deviation of the whole input.
C7_OversizedWindowShrinks ==
    (window_size > Len(prices) /\ Len(prices) >= 1) =>
        /\ pc \notin {"thrown", "crashed"}
        /\ pc # "call" => window = Len(prices)
        /\ pc = "returned" =>
               At(result, Len(prices) - 1) =
                   DirectStdDev(prices, 0, Len(prices) - 1)

\* C7 witness: an oversized window over a non-constant input has returned.
C7_Witness ==
    /\ pc = "returned"
    /\ window_size > Len(prices)
    /\ Len(prices) >= 3
    /\ At(result, Len(prices) - 1) # Sqrt(Zero)

\* ------------------------------------------------------- claims: smoothed RSI

RsiOps == {"compute_smoothed_rsi", "compute_smoothed_rsi_np",
           "compute_smoothed_rsi_simd"}

\* C2: on the same prices and window_size, compute_smoothed_rsi and
\* compute_smoothed_rsi_simd return sequences of the same length with equal
\* values at every index.
C2_ListEqualsSimd ==
    (Called("compute_smoothed_rsi") /\ Called("compute_smoothed_rsi_simd")) =>
        /\ ret["compute_smoothed_rsi"].status = "ok"
               <=> ret["compute_smoothed_rsi_simd"].status = "ok"
        /\ Len(ret["compute_smoothed_rsi"].out)
               = Len(ret["compute_smoothed_rsi_simd"].out)
        /\ ret["compute_smoothed_rsi"].out = ret["compute_smoothed_rsi_simd"].out

\* The 0-based change indices lo, lo+1, ..., hi in order.
IndexRun(lo, hi) == [k \in 1..(hi - lo + 1) |-> lo + k - 1]

\* C3: for 1 <= window_size < N every RSI implementation returns exactly
\* N - window_size values and its smoothing loop folds each change after
\* the initial window (indices window_size .. N-2) exactly once, in order,
\* and no change of the initial window.
C3_RsiLengthAndFolds ==
    \A op \in RsiOps :
        (Called(op) /\ window_size >= 1 /\ window_size < Len(prices)) =>
            /\ ret[op].status = "ok"
            /\ Len(ret[op].out) = Len(prices) - window_size
            /\ ret[op].trace = IndexRun(window_size, Len(prices) - 2)

\* C9: with window_size = 0 every RSI implementation fails with an error,
\* whatever the prices (the empty sequence included).
C9_RsiZeroWindowFails ==
    \A op \in RsiOps :
        (Called(op) /\ window_size < 1) => ret[op].status = "error"

\* C16: for window_size >= 1 and N <= window_size every RSI implementation
\* returns the empty sequence and raises no error.
C16_RsiShortInputEmpty ==
    \A op \in RsiOps :
        (Called(op) /\ window_size >= 1 /\ Len(prices) <= window_size) =>
            /\ ret[op].status = "ok"
            /\ ret[op].what = ""
            /\ ret[op].out = <<>>

\* C16 witness: on a non-empty input no longer than the window the list and
\* the NumPy implementation have both returned the empty sequence.
C16_Witness ==
    /\ Len(prices) >= 1
    /\ window_size >= 1
    /\ Len(prices) <= window_size
    /\ ret["compute_smoothed_rsi"].status = "ok"
    /\ ret["compute_smoothed_rsi"].out = <<>>
    /\ ret["compute_smoothed_rsi_np"].status = "ok"

StrictlyIncreasing(p) == \A k \in 1..(Len(p) - 1) : p[k] < p[k + 1]

ConstantPrices(p) == \A k \in 1..(Len(p) - 1) : p[k] = p[k + 1]

\* C17: in every RSI implementation a value pushed while the average loss
\* is 0 is exactly 100, and on a strictly increasing price sequence longer
\* than window_size every returned value is 100.
C17_ZeroLossIsHundred ==
    \A op \in RsiOps :
        (Called(op) /\ ret[op].status = "ok") =>
            /\ Len(ret[op].steps) = Len(ret[op].out)
            /\ \A k \in 1..Len(ret[op].out) :
                   ret[op].steps[k][2] = Zero => ret[op].out[k] = R(100)
            /\ (StrictlyIncreasing(prices) /\ window_size >= 1
                   /\ Len(prices) > window_size) =>
                   /\ ret[op].out # <<>>
                   /\ \A k \in 1..Len(ret[op].out) : ret[op].out[k] = R(100)

\* C17 witness: on a strictly increasing sequence the SIMD implementation
\* has returned two values, both 100, from a positive average gain and a
\* zero average loss.
C17_Witness ==
    /\ StrictlyIncreasing(prices)
    /\ Len(ret["compute_smoothed_rsi_simd"].out) = 2
    /\ ret["compute_smoothed_rsi_simd"].out = <<R(100), R(100)>>
    /\ ret["compute_smoothed_rsi_simd"].steps[2][1] # Zero
    /\ ret["compute_smoothed_rsi_simd"].steps[2][2] = Zero

\* C18: for window_size >= 1, at every step of every RSI implementation
\* avg_gain >= 0 and avg_loss >= 0, and every value returned lies in the
\* closed interval [0, 100].
C18_RsiBounded ==
    \A op \in RsiOps :
        (Called(op) /\ window_size >= 1) =>
            /\ \A k \in 1..Len(ret[op].steps) :
                   /\ RLe(Zero, ret[op].steps[k][1])
                   /\ RLe(Zero, ret[op].steps[k][2])
            /\ \A k \in 1..Len(ret[op].out) :
                   /\ RLe(Zero, ret[op].out[k])
                   /\ RLe(ret[op].out[k], R(100))

\* C18 witness: the NumPy implementation has smoothed over gains and
\* losses alike and returned a value strictly inside (0, 100).
C18_Witness ==
    /\ Len(ret["compute_smoothed_rsi_np"].out) >= 2
    /\ \E k \in 2..Len(ret["compute_smoothed_rsi_np"].out) :
           /\ RLt(Zero, ret["compute_smoothed_rsi_np"].steps[k][1])
           /\ RLt(Zero, ret["compute_smoothed_rsi_np"].steps[k][2])
           /\ RLt(Zero, ret["compute_smoothed_rsi_np"].out[k])
           /\ RLt(ret["compute_smoothed_rsi_np"].out[k], R(100))

\* C19: on constant prices (every change 0) longer than window_size, the
\* last value compute_smoothed_rsi returns is 50.
C19_FlatMarketIsFifty ==
    (Called("compute_smoothed_rsi") /\ ConstantPrices(prices)
        /\ window_size >= 1 /\ Len(prices) > window_size) =>
        /\ ret["compute_smoothed_rsi"].status = "ok"
        /\ ret["compute_smoothed_rsi"].out # <<>>
        /\ ret["compute_smoothed_rsi"].out[Len(ret["compute_smoothed_rsi"].out)]
               = R(50)

\* ---------------------------------------- claims: simple moving average

SmaOps == {"simple_moving_average", "simple_moving_average_np",
           "simple_moving_average_simd"}

\* C4: for 1 <= window_size <= N the three moving averages agree: each
\* returns N - window_size + 1 values and its k-th value is
\* (data[k] + ... + data[k+window_size-1]) / window_size.
C4_MovingAveragesAgree ==
    \A op \in SmaOps :
        (Called(op) /\ window_size >= 1 /\ window_size <= Len(prices)) =>
            /\ ret[op].status = "ok"
            /\ Len(ret[op].out) = Len(prices) - window_size + 1
            /\ \A k \in 0..(Len(prices) - window_size) :
                   At(ret[op].out, k)
                       = DirectMean(prices, k, k + window_size - 1)

\* C4 witness: the sliding-sum version and the SIMD version have both
\* returned at least three windows of two or more elements on a build
\* whose chunk loop runs.
C4_Witness ==
    /\ Called("simple_moving_average_np")
    /\ Called("simple_moving_average_simd")
    /\ width = 2
    /\ window_size >= 2
    /\ Len(ret["simple_moving_average_np"].out) >= 3
    /\ ret["simple_moving_average_np"].out
           = ret["simple_moving_average_simd"].out
    /\ At(ret["simple_moving_average_np"].out, 0)
           # At(ret["simple_moving_average_np"].out, 2)

\* C15: for window_size >= 1 every variant of simple_moving_average returns
\* without error exactly max(0, N - window_size + 1) values; when N is
\* below window_size (the empty input included) that is the empty sequence.
C15_MovingAverageLength ==
    \A op \in SmaOps :
        (Called(op) /\ window_size >= 1) =>
            /\ ret[op].status = "ok"
            /\ ret[op].what = ""
            /\ Len(ret[op].out) = Max(0, Len(prices) - window_size + 1)
            /\ Len(prices) < window_size => ret[op].out = <<>>

\* C15 witness: on a non-empty input shorter than the window the list and
\* the SIMD variant have both returned the empty sequence.
C15_Witness ==
    /\ Len(prices) >= 1
    /\ Len(prices) < window_size
    /\ ret["simple_moving_average"] = Ok(<<>>, <<>>)
    /\ ret["simple_moving_average_simd"] = Ok(<<>>, <<>>)

\* ------------------------------------------------------------ claims: EMA

EmaSmoothingOps == {"compute_ema_with_smoothing",
                    "compute_ema_with_smoothing_np",
                    "compute_ema_with_smoothing_simd"}

EmaWindowOps == {"compute_ema", "compute_ema_np", "compute_ema_simd"}

\* C5: for a smoothing factor alpha in (0,1) and a non-empty input, each
\* smoothing-factor EMA returns a sequence of the input's length with
\* ema[0] = input[0] and ema[i] = alpha*input[i] + (1-alpha)*ema[i-1], so
\* the list form and the SIMD form are equal at every index.
C5_EmaRecurrence ==
    (RLt(Zero, smoothing) /\ RLt(smoothing, R(1)) /\ Len(prices) >= 1) =>
        /\ \A op \in EmaSmoothingOps :
               Called(op) =>
                   /\ ret[op].status = "ok"
                   /\ Len(ret[op].out) = Len(prices)
                   /\ At(ret[op].out, 0) = R(At(prices, 0))
                   /\ \A k \in 1..(Len(prices) - 1) :
                          At(ret[op].out, k)
                              = RAdd(RMul(smoothing, R(At(prices, k))),
                                     RMul(RSub(R(1), smoothing),
                                          At(ret[op].out, k - 1)))
        /\ (Called("compute_ema_with_smoothing")
                /\ Called("compute_ema_with_smoothing_simd")) =>
               ret["compute_ema_with_smoothing"].out
                   = ret["compute_ema_with_smoothing_simd"].out

\* C5 witness: the list form and the SIMD form have both smoothed a
\* non-constant input of three or more prices with alpha = 1/4.
C5_Witness ==
    /\ Called("compute_ema_with_smoothing")
    /\ Called("compute_ema_with_smoothing_simd")
    /\ smoothing = <<1, 4>>
    /\ Len(prices) >= 3
    /\ Len(ret["compute_ema_with_smoothing"].out) = Len(prices)
    /\ At(ret["compute_ema_with_smoothing_simd"].out, 1)
           # At(ret["compute_ema_with_smoothing_simd"].out, 2)

\* C10: the window-based EMA entry points fail only for window = 0: for
\* every window >= 1 they succeed and return a sequence of the input's
\* length (the empty sequence for empty input).
C10_EmaWindowFailsOnlyOnZero ==
    \A op \in EmaWindowOps :
        Called(op) =>
            /\ window_size = 0 => ret[op].status = "error"
            /\ window_size >= 1 =>
                   /\ ret[op].status = "ok"
                   /\ Len(ret[op].out) = Len(prices)

\* ------------------------------------------- claims: rolling volatility

VolOps == {"rolling_volatility", "rolling_volatility_np",
           "rolling_volatility_simd"}

VolListOps == {"rolling_volatility", "rolling_volatility_np"}

AllPositive(p) == \A k \in 1..Len(p) : p[k] > 0

\* C11: when some price is <= 0, every variant of rolling_volatility fails
\* with an error and returns no value.
C11_NonPositivePriceFails ==
    \A op \in VolOps :
        (Called(op) /\ ~AllPositive(prices)) =>
            /\ ret[op].status = "error"
            /\ ret[op].out = <<>>

\* C12 as stated: every variant fails when fewer than 2 prices are given
\* and when window_size is not strictly less than the number of
\* log-returns N - 1; every call on 2 prices fails.
C12_FailsUnlessBelowReturns ==
    \A op \in VolOps :
        (Called(op) /\ (Len(prices) < 2 \/ window_size >= Len(prices) - 1
                        \/ Len(prices) = 2)) =>
            ret[op].status = "error"

\* C12 amended: every variant fails when fewer than 2 prices are given and
\* when window_size exceeds the number of log-returns N - 1; a window
\* equal to N - 1 is accepted, so on 2 positive prices the list and NumPy
\* variants return one value for window_size 1 and fail for every other
\* window_size, and the SIMD variant fails for every window_size.
C12_FailsWhenAboveReturns ==
    /\ \A op \in VolOps :
           (Called(op) /\ (Len(prices) < 2 \/ window_size > Len(prices) - 1)) =>
               ret[op].status = "error"
    /\ \A op \in VolListOps :
           (Called(op) /\ Len(prices) >= 2 /\ AllPositive(prices)
               /\ window_size = Len(prices) - 1) =>
               /\ ret[op].status = "ok"
               /\ Len(ret[op].out) = 1
    /\ \A op \in VolListOps :
           (Called(op) /\ Len(prices) = 2 /\ window_size # 1) =>
               ret[op].status = "error"
    /\ (Called("rolling_volatility_simd") /\ Len(prices) = 2) =>
           ret["rolling_volatility_simd"].status = "error"

\* C12 witness: both the list and the NumPy variant have returned one value
\* on 2 positive prices with window_size 1.
C12_Witness ==
    /\ Len(prices) = 2
    /\ AllPositive(prices)
    /\ window_size = 1
    /\ ret["rolling_volatility"].status = "ok"
    /\ Len(ret["rolling_volatility"].out) = 1
    /\ ret["rolling_volatility_np"].status = "ok"

\* C13: on N >= 2 positive prices and 1 <= window_size <= N - 1,
\* rolling_volatility (and its NumPy variant; the SIMD variant from
\* window_size 2 on) returns exactly N - window_size values.
C13_OnePerReturnWindow ==
    (Len(prices) >= 2 /\ AllPositive(prices) /\ window_size >= 1
        /\ window_size <= Len(prices) - 1) =>
        /\ \A op \in VolListOps :
               Called(op) =>
                   /\ ret[op].status = "ok"
                   /\ Len(ret[op].out) = Len(prices) - window_size
        /\ (Called("rolling_volatility_simd") /\ window_size >= 2) =>
               /\ ret["rolling_volatility_simd"].status = "ok"
               /\ Len(ret["rolling_volatility_simd"].out)
                      = Len(prices) - window_size

\* C13 witness: rolling_volatility has returned 2 values on 4 positive
\* prices with window_size 2.
C13_Witness ==
    /\ Len(prices) = 4
    /\ AllPositive(prices)
    /\ window_size = 2
    /\ ret["rolling_volatility"].status = "ok"
    /\ Len(ret["rolling_volatility"].out) = 2

\* The messages that report a window too large for the data.
WindowTooLargeWhat ==
    {"Window size is too large for the number of price returns.",
     "Window size must be smaller than the number of prices.",
     "Window size is larger than the number of log returns."}

\* C14: rolling_volatility and its NumPy variant report the three causes
\* apart: window_size = 0 as window zero, fewer than 2 prices (with a
\* non-zero window) as insufficient data and not as window too large, and
\* a window above the number of log-returns of 2 or more prices as window
\* too large.
C14_DistinctRejections ==
    \A op \in VolListOps :
        Called(op) =>
            /\ window_size = 0 =>
                   /\ ret[op].status = "error"
                   /\ ret[op].what = "Window size cannot be zero."
            /\ (window_size >= 1 /\ Len(prices) < 2) =>
                   /\ ret[op].status = "error"
                   /\ ret[op].what # "Window size cannot be zero."
                   /\ ret[op].what \notin WindowTooLargeWhat
            /\ (Len(prices) >= 2 /\ window_size > Len(prices) - 1) =>
                   /\ ret[op].status = "error"
                   /\ ret[op].what \in WindowTooLargeWhat

\* ------------------------------------------------- claims: window_size = 0

WindowedOps == {"simple_moving_average", "simple_moving_average_np",
                "simple_moving_average_simd",
                "rolling_volatility", "rolling_volatility_np",
                "rolling_volatility_simd",
                "compute_ema", "compute_ema_np", "compute_ema_simd"}

\* C8: called with window_size = 0, rolling_std_dev_fast and every variant
\* of simple_moving_average, rolling_volatility and compute_ema fails with
\* an error and returns no result, whatever the input (empty included).
C8_ZeroWindowFails ==
    window_size = 0 =>
        /\ pc \in {"call", "thrown"}
        /\ result = <<>>
        /\ pc = "thrown" => error # ""
        /\ \A op \in WindowedOps :
               Called(op) =>
                   /\ ret[op].status = "error"
                   /\ ret[op].what # ""
                   /\ ret[op].out = <<>>

\* C8 witness: on the empty input with window_size = 0, two of the pure
\* calls have failed and rolling_std_dev_fast has thrown.
C8_Witness ==
    /\ window_size = 0
    /\ prices = <<>>
    /\ pc = "thrown"
    /\ ret["compute_ema"].status = "error"
    /\ ret["rolling_volatility_simd"].status = "error"

\* ------------------------------------------------ claims: vector primitives

\* The elementwise operations and the reductions.
ElementwiseOps == {"vector_add", "vector_sub", "vector_mul", "vector_div",
                   "vector_mul_scalar", "vector_add_scalar"}

ReductionOps == {"dot_product", "vector_sum", "vector_mean",
                 "vector_variance", "vector_stddev",
                 "vector_conditional_sum_positive",
                 "vector_conditional_sum_negative"}

\* The value is zero (the square root of zero included).
IsZeroValue(x) == x = Zero \/ x = Sqrt(Zero)

\* One of the pointers the elementwise operation op takes is null.
NullPassed(op) ==
    \/ vec_a.null
    \/ vec_result.null
    \/ op \in {"vector_add", "vector_sub", "vector_mul", "vector_div"}
       /\ vec_b.null

\* C20: with size 0 every reduction returns 0; with size 0 or with any of
\* its buffer pointers null every elementwise operation returns and leaves
\* every cell of the result buffer as it was; with size 1 vector_sum and
\* vector_mean return the single element of a.
C20_EmptyAndNullAreNeutral ==
    /\ \A op \in ReductionOps :
           Called(op) /\ vec_size = 0 =>
               /\ ret[op].status = "ok"
               /\ Len(ret[op].out) = 1
               /\ IsZeroValue(ret[op].out[1])
    /\ \A op \in ElementwiseOps :
           Called(op) /\ (vec_size = 0 \/ NullPassed(op)) =>
               /\ ret[op].status = "ok"
               /\ ret[op].out = vec_result.data
    /\ \A op \in {"vector_sum", "vector_mean"} :
           Called(op) /\ vec_size = 1 /\ ~vec_a.null =>
               ret[op] = Ok(<<vec_a.data[1]>>, <<>>)

\* C20 witness: vector_div was called with a null b on a result buffer of
\* two or more cells and a size covering them, and every cell is still
\* unwritten.
C20_Witness ==
    /\ Called("vector_div")
    /\ vec_b.null
    /\ ~vec_a.null
    /\ ~vec_result.null
    /\ vec_size >= 2
    /\ Len(vec_result.data) = vec_size
    /\ \A k \in 1..vec_size : ret["vector_div"].out[k] = Unwritten

\* The sum of the strictly positive elements among the first n of d.
RECURSIVE PositiveSum(_, _)
PositiveSum(d, n) ==
    IF n = 0 THEN Zero
    ELSE IF RGt(d[n], Zero) THEN RAdd(PositiveSum(d, n - 1), d[n])
    ELSE PositiveSum(d, n - 1)

\* The sum of the absolute values of the strictly negative elements among
\* the first n of d.
RECURSIVE NegativeAbsSum(_, _)
NegativeAbsSum(d, n) ==
    IF n = 0 THEN Zero
    ELSE IF RLt(d[n], Zero) THEN RAdd(NegativeAbsSum(d, n - 1), RNeg(d[n]))
    ELSE NegativeAbsSum(d, n - 1)

\* C21: for every buffer, length and chunk width, vector_conditional_sum
\* with the flag true returns the sum of the strictly positive elements and
\* with the flag false the sum of the absolute values of the strictly
\* negative ones; zero elements (and elements that are neither, NaN) add
\* nothing.
C21_ConditionalSumIsExact ==
    ~vec_a.null =>
        /\ Called("vector_conditional_sum_positive") =>
               ret["vector_conditional_sum_positive"].out =
                   <<PositiveSum(vec_a.data, vec_size)>>
        /\ Called("vector_conditional_sum_negative") =>
               ret["vector_conditional_sum_negative"].out =
                   <<NegativeAbsSum(vec_a.data, vec_size)>>

\* sum = 0; for i in [0, n): sum += d[i].
RECURSIVE PlainSum(_, _)
PlainSum(d, n) == IF n = 0 THEN Zero ELSE RAdd(PlainSum(d, n - 1), d[n])

\* sum = 0; for i in [0, n): sum += d[i] * e[i].
RECURSIVE PlainDot(_, _, _)
PlainDot(d, e, n) ==
    IF n = 0 THEN Zero ELSE RAdd(PlainDot(d, e, n - 1), RMul(d[n], e[n]))

\* m = d[0]; for i in [1, n): if d[i] > m (d[i] < m) then m = d[i].
RECURSIVE PlainExtreme(_, _, _)
PlainExtreme(isMax, d, n) ==
    IF n = 1 THEN d[1]
    ELSE LET m == PlainExtreme(isMax, d, n - 1)
         IN  IF Beats(isMax, d[n], m) THEN d[n] ELSE m

\* C27: for every chunk width and every n >= 1 the chunk loop and the
\* cleanup loop of vector_sum, dot_product, vector_max and vector_min
\* together take every element once, so each returns what the plain
\* element-by-element loop returns.
C27_ChunkedEqualsPlainLoop ==
    (~vec_a.null /\ vec_size >= 1) =>
        /\ Called("vector_sum") =>
               ret["vector_sum"].out = <<PlainSum(vec_a.data, vec_size)>>
        /\ (Called("dot_product") /\ ~vec_b.null) =>
               ret["dot_product"].out =
                   <<PlainDot(vec_a.data, AsDoubles(vec_b.data), vec_size)>>
        /\ Called("vector_max") =>
               ret["vector_max"].out =
                   <<PlainExtreme(TRUE, vec_a.data, vec_size)>>
        /\ Called("vector_min") =>
               ret["vector_min"].out =
                   <<PlainExtreme(FALSE, vec_a.data, vec_size)>>

\* ------------------------------- claims: rolling_std_dev_fast, the phases

\* During Priming, after the k-th sample (k = i >= 1) mean is the average
\* of the first k prices and squared_sum the sum of their squared
\* deviations from it.
PrimedSoFar ==
    (pc = "priming" /\ i >= 1) =>
        /\ mean = DirectMean(prices, 0, i - 1)
        /\ squared_sum = DirectSumSqDev(prices, 0, i - 1)

\* The first value has just been emitted and no Sliding step has run.
FirstEmitted == pc = "sliding" /\ i = window

\* C25 as stated: the Priming accumulators are the mean and the sum of
\* squared deviations of the samples so far, and the first emitted value is
\* sqrt(squared_sum / window_size), stored at position window_size - 1.
C25_FirstValueUsesWindowSize ==
    /\ PrimedSoFar
    /\ (FirstEmitted /\ Len(prices) >= 1) =>
           /\ window_size <= Len(result)
           /\ At(result, window_size - 1) =
                  Sqrt(RDiv(squared_sum, R(window_size)))

\* C25 amended: the Priming accumulators are the mean and the sum of
\* squared deviations of the samples so far, and for a non-empty input the
\* first emitted value is sqrt(squared_sum / window) for the effective
\* window min(window_size, N), stored at position window - 1, squared_sum
\* being the sum of squared deviations of the first window prices.
C25_FirstValueUsesEffectiveWindow ==
    /\ PrimedSoFar
    /\ (FirstEmitted /\ Len(prices) >= 1) =>
           /\ window = Min(window_size, Len(prices))
           /\ squared_sum = DirectSumSqDev(prices, 0, window - 1)
           /\ At(result, window - 1) = Sqrt(RDiv(squared_sum, R(window)))
           /\ \A j \in 0..(Len(prices) - 1) :
                  j # window - 1 => At(result, j) = Zero

\* C25 witness: Priming took three samples that are not all equal under a
\* window_size larger than the input, and the first value is stored.
C25_Witness ==
    /\ FirstEmitted
    /\ window = 3
    /\ window_size > Len(prices)
    /\ squared_sum # Zero
    /\ At(result, 2) = Sqrt(RDiv(squared_sum, R(3)))

\* C26: Priming takes the samples 0, 1, ... in order up to the first
\* window_size of them (all of them when there are fewer), Sliding takes
\* every later sample once, in order, and never hands back to Priming; the
\* Sliding step for index i updates the mean with price_in = prices[i] and
\* price_out = prices[i - window_size].
C26_PrimingThenSliding ==
    [][/\ (pc = "priming" /\ pc' = "priming") =>
              /\ i < Min(window_size, Len(prices))
              /\ i' = i + 1
       /\ (pc = "priming" /\ pc' = "sliding") =>
              /\ i = Min(window_size, Len(prices))
              /\ i' = i
       /\ pc = "sliding" => pc' \in {"sliding", "returned"}
       /\ (pc = "sliding" /\ pc' = "sliding") =>
              /\ window_size <= i
              /\ i < Len(prices)
              /\ i' = i + 1
              /\ price_out = R(At(prices, i - window_size))
              /\ mean' = SlideMean(mean, R(At(prices, i)),
                                   R(At(prices, i - window_size)),
                                   window_size)
       /\ (pc = "sliding" /\ pc' = "returned") => i = Len(prices)
      ]_vars

\* C26 witness: with window_size 2 over four prices that differ, Priming
\* took two samples, Sliding the other two, and the call returned with
\* price_out at prices[2], the oldest sample of the last window.
C26_Witness ==
    /\ pc = "returned"
    /\ window_size = 2
    /\ Len(prices) = 4
    /\ At(prices, 1) # At(prices, 2)
    /\ At(prices, 2) # At(prices, 3)
    /\ i = 4
    /\ price_out = R(At(prices, 2))

\* C29: the quantity under the square root is floored at 0, so every value
\* rolling_std_dev_fast leaves in result is a number >= 0 (the 0.0 of an
\* unwritten position or the square root of a quantity >= 0), never the
\* invalid value of a negative squared_sum.
C29_EmittedNonNegative ==
    \A j \in 1..Len(result) :
        \/ result[j] = Zero
        \/ /\ Len(result[j]) = 3
           /\ result[j][2] >= 0

\* C30: for every input (the empty one included) and window_size >= 1,
\* every index at which the next statement reads prices or writes result
\* lies in [0, N), and the effective window it divides by is not zero: the
\* priming loop reads prices[i]; lines 23-24 write result[window - 1],
\* divide by window and read prices[0]; the sliding loop reads prices[i],
\* divides by window, writes result[i] and reads prices[i - window + 1].
C30_AccessesInBounds ==
    window_size >= 1 =>
        /\ pc # "crashed"
        /\ (pc = "priming" /\ i < window) => i < Len(prices)
        /\ (pc = "priming" /\ i >= window) =>
               /\ window # 0
               /\ window - 1 \in 0..(Len(prices) - 1)
               /\ 0 \in 0..(Len(prices) - 1)
        /\ (pc = "sliding" /\ i < Len(prices)) =>
               /\ window # 0
               /\ i - window + 1 \in 0..(Len(prices) - 1)

\* ------------------------- claims: rolling volatility, the variants agree

\* The log-returns of positive prices as multiples of ln 2.
LogMultiples(p) == [k \in 1..(Len(p) - 1) |-> Log2(Norm(p[k + 1], p[k]))]

\* sqrt(252) times the population standard deviation of the w log-returns
\* from the 0-based index off on, recomputed directly.
DirectVolatility(p, off, w) ==
    <<"sqrt">> \o RMul(RDiv(DirectSumSqDev(LogMultiples(p), off, off + w - 1),
                            R(w)),
                       R(Annualization))

\* The k-th value returned by op is the NaN of a difference that is 0 in
\* exact arithmetic and was rounded below 0 (the prices are positive: the
\* log-returns are finite and no other NaN arises).
RoundedBelowZero(op, k) ==
    /\ ret[op].out[k] = NaN
    /\ DirectVolatility(prices, k - 1, window_size) = Annualize(Sqrt(Zero))

\* C28: in exact arithmetic, on every input that rolling_volatility (or
\* rolling_volatility_np) and rolling_volatility_simd both accept, the two
\* return the same number of values, equal at every index, each being
\* sqrt(252) times the standard deviation of its window of log-returns.
\* A value that is not the exact one, the NaN of a rounded difference, is
\* outside the statement.
C28_VolatilityVariantsAgree ==
    \A op \in {"rolling_volatility", "rolling_volatility_np"} :
        (ret[op].status = "ok" /\ ret["rolling_volatility_simd"].status = "ok")
        =>  /\ Len(ret[op].out) = Len(ret["rolling_volatility_simd"].out)
            /\ Len(ret[op].out) = Len(prices) - window_size
            /\ \A k \in 1..Len(ret[op].out) :
                   /\ ret["rolling_volatility_simd"].out[k] =
                          DirectVolatility(prices, k - 1, window_size)
                   /\ \/ ret[op].out[k] =
                             ret["rolling_volatility_simd"].out[k]
                      \/ RoundedBelowZero(op, k)

\* C28 witness: the list and the SIMD variant both returned two different
\* non-zero volatilities for the same input.
C28_Witness ==
    /\ ret["rolling_volatility"].status = "ok"
    /\ ret["rolling_volatility_simd"].status = "ok"
    /\ Len(ret["rolling_volatility"].out) = 2
    /\ ret["rolling_volatility"].out[1] # ret["rolling_volatility"].out[2]
    /\ ret["rolling_volatility"].out[1] # Annualize(Sqrt(Zero))
    /\ ret["rolling_volatility"].out[2] # Annualize(Sqrt(Zero))
    /\ ret["rolling_volatility_simd"].out = ret["rolling_volatility"].out


\* The result elements task t writes: [i, i + simd_width).
TaskRange(t) == futures[t].i .. (futures[t].i + width - 1)

\* The writes made to result element k (0-based) by tasks.
TaskWrites(k) == SelectSeq(At(results, k), LAMBDA w : w.by = "task")

\* The calling thread has written a tail element.
TailWritten ==
    \E k \in 1..Len(results) : \E n \in 1..Len(results[k]) :
        results[k][n].by = "main"

\* C22: the tasks launched by black_scholes_multiple_calls write disjoint
\* ranges [i, i + W) of the results, every task has run to its end before
\* a tail element is written and before the results are returned, no
\* result element is written twice (by two tasks, or by a task and the
\* tail loop), and at the return every element has been written once.
C22_TasksDisjointAndJoined ==
    /\ \A s, t \in 1..Len(futures) :
           s # t => TaskRange(s) \cap TaskRange(t) = {}
    /\ \A k \in 0..(Len(results) - 1) :
           /\ Len(TaskWrites(k)) <= 1
           /\ Len(At(results, k)) <= 1
           /\ pc = "returned" => Len(At(results, k)) = 1
    /\ pc = "returned" => Len(results) = num_options
    /\ (TailWritten \/ pc = "returned") =>
           \A t \in 1..Len(futures) : futures[t].j = width

\* Five options in batches of two: two tasks have written their ranges,
\* the tail loop has priced the fifth, and the results are returned.
C22_Witness ==
    /\ pc = "returned"
    /\ num_options = 5
    /\ width = 2
    /\ Len(futures) = 2
    /\ results = <<<<ByTask(0)>>, <<ByTask(0)>>, <<ByTask(2)>>,
                   <<ByTask(2)>>, <<ByMain(4)>>>>


\* The positive rates of the edges from u to v in g.
RatesBetween(g, u, v) ==
    IF u \notin DOMAIN g THEN {}
    ELSE {g[u][k][2] : k \in {n \in 1..Len(g[u]) :
                                 g[u][n][1] = v /\ RLt(Zero, g[u][n][2])}}

\* The largest log2 of a rate from u to v (an edge exists).
BestLog(g, u, v) ==
    CHOOSE m \in {Log2(r) : r \in RatesBetween(g, u, v)} :
        \A r \in RatesBetween(g, u, v) : Log2(r) <= m

\* c is closed and each consecutive pair is a positive-rate edge of g.
IsClosedWalk(g, c) ==
    /\ Len(c) >= 2
    /\ c[1] = c[Len(c)]
    /\ \A k \in 1..(Len(c) - 1) : RatesBetween(g, c[k], c[k + 1]) # {}

\* log2 of the product of the best rates along c, from its k-th edge.
RECURSIVE WalkLog(_, _, _)
WalkLog(g, c, k) ==
    IF k >= Len(c) THEN 0
    ELSE BestLog(g, c[k], c[k + 1]) + WalkLog(g, c, k + 1)

\* c is a cycle of g whose product of rates exceeds 1.
IsArbitrageCycle(g, c) == IsClosedWalk(g, c) /\ WalkLog(g, c, 1) > 0

\* g holds such a cycle (a closed walk with product above 1 contains a
\* simple cycle with product above 1).
HasArbitrage(g) ==
    \E len \in 2..(Cardinality(Nodes) + 1) :
        \E c \in [1..len -> Nodes] : IsArbitrageCycle(g, c)

\* C23: a non-empty result of detectArbitrageBellman is a closed cycle of
\* positive-rate edges of the graph whose product of rates exceeds 1, and
\* on a graph without such a cycle the result is empty.
C23_ResultIsArbitrageCycle ==
    Called("detectArbitrageBellman") =>
        LET o == ret["detectArbitrageBellman"]
        IN  /\ (o.status = "ok" /\ o.out # <<>>) =>
                   IsArbitrageCycle(graph, o.out)
            /\ ~HasArbitrage(graph) => (o.status = "ok" /\ o.out = <<>>)

\* C24: on a graph holding a cycle of positive-rate edges whose product
\* of rates exceeds 1, detectArbitrageBellman returns, and returns a
\* non-empty sequence, in every iteration order of the adjacency map.
C24_ArbitrageIsFound ==
    (Called("detectArbitrageBellman") /\ HasArbitrage(graph)) =>
        /\ ret["detectArbitrageBellman"].status = "ok"
        /\ ret["detectArbitrageBellman"].out # <<>>

====
